---- MODULE Spec2Model ----
(***************************************************************************)
(* SarvaMind chat client: the response sanitizer and the AI gateway        *)
(* adapters (GeminiAI.tsx, ImprovedSarvamAI.tsx), and the session-aware    *)
(* chat view (EnhancedChatInterface.tsx) with the sidebar that derives the  *)
(* session list from the messages table.                                   *)
(*                                                                         *)
(* A JavaScript string is a sequence of one-character strings, so that     *)
(* trim, toLowerCase, startsWith, includes, split and the regular          *)
(* expressions of the source are computed character by character.          *)
(***************************************************************************)
EXTENDS Integers, Sequences, FiniteSets, Bags, TLC

(***************************************************************************)
(* String primitives of the JavaScript runtime                             *)
(***************************************************************************)
Uppers ==
  <<"A","B","C","D","E","F","G","H","I","J","K","L","M","N","O","P","Q","R","S","T","U","V","W","X","Y","Z">>
UpperSet ==
  {Uppers[i] : i \in 1..26}
LowerMap ==
  [u \in UpperSet |->
     <<"a","b","c","d","e","f","g","h","i","j","k","l","m","n","o","p","q","r","s","t","u","v","w","x","y","z">>[CHOOSE i \in 1..26 : Uppers[i] = u]]

\* String.prototype.toLowerCase on one character
toLowerChar(c) ==
  IF c \in UpperSet THEN LowerMap[c] ELSE c

\* String.prototype.toLowerCase
toLowerCase(s) ==
  [i \in 1..Len(s) |-> toLowerChar(s[i])]

\* the characters matched by \s and removed by trim
IsWs(c) ==
  c \in {" ", "\n", "\t", "\r"}

MinOf(S) ==
  CHOOSE x \in S : \A y \in S : x <= y
MaxOf(S) ==
  CHOOSE x \in S : \A y \in S : x >= y

\* String.prototype.trim
trim(s) ==
  LET idx == {i \in 1..Len(s) : ~IsWs(s[i])}
  IN  IF idx = {} THEN <<>> ELSE SubSeq(s, MinOf(idx), MaxOf(idx))

\* s with its first n characters removed (s.substring(n))
dropFirst(s, n) ==
  SubSeq(s, n + 1, Len(s))

\* s.substring(0, n)
substring0(s, n) ==
  SubSeq(s, 1, IF n < Len(s) THEN n ELSE Len(s))

\* p occurs in s at (1-based) position i
matchAt(s, p, i) ==
  /\ i + Len(p) - 1 <= Len(s)
  /\ SubSeq(s, i, i + Len(p) - 1) = p

\* String.prototype.startsWith
startsWith(s, p) ==
  matchAt(s, p, 1)

\* String.prototype.includes
includes(s, p) ==
  \E i \in 1..(Len(s) - Len(p) + 1) : matchAt(s, p, i)

\* 1-based position of the first occurrence of p in s, 0 when there is none
indexOf(s, p) ==
  LET occ == {i \in 1..(Len(s) - Len(p) + 1) : matchAt(s, p, i)}
  IN  IF occ = {} THEN 0 ELSE MinOf(occ)

\* s.split(sep).length > 1, for a non-empty separator
splitHasSecond(s, sep) ==
  indexOf(s, sep) > 0

\* s.split(sep)[1], for a non-empty separator that occurs in s: the text
\* between the first occurrence of sep and the next one (or the end)
splitSecond(s, sep) ==
  LET rest == dropFirst(s, indexOf(s, sep) + Len(sep) - 1)
      nxt  == indexOf(rest, sep)
  IN  IF nxt = 0 THEN rest ELSE SubSeq(rest, 1, nxt - 1)

\* prefixesToRemove of GeminiAI.cleanAndValidateResponse, in the order the loop visits them
GeminiPrefixes ==
  << <<"u","s","e","r"," ","q","u","e","r","y",":">>,
     <<"a","s","s","i","s","t","a","n","t"," ","r","e","s","p","o","n","s","e",":">>,
     <<"u","s","e","r",":">>,
     <<"a","s","s","i","s","t","a","n","t",":">>,
     <<"a","i",":">>,
     <<"s","a","r","v","a","m","i","n","d",":">>,
     <<"g","e","m","i","n","i",":">>,
     <<"r","e","s","p","o","n","s","e",":">>,
     <<"a","n","s","w","e","r",":">>,
     <<"h","e","r","e"," ","i","s"," ","t","h","e"," ","r","e","s","p","o","n","s","e",":">>,
     <<"h","e","r","e","'","s"," ","t","h","e"," ","r","e","s","p","o","n","s","e",":">> >>

\* prefixesToRemove of ImprovedSarvamAI.cleanAndValidateResponse
SarvamPrefixes ==
  << <<"u","s","e","r"," ","q","u","e","r","y",":">>,
     <<"a","s","s","i","s","t","a","n","t"," ","r","e","s","p","o","n","s","e",":">>,
     <<"u","s","e","r",":">>,
     <<"a","s","s","i","s","t","a","n","t",":">>,
     <<"a","i",":">>,
     <<"s","a","r","v","a","m","i","n","d",":">>,
     <<"r","e","s","p","o","n","s","e",":">>,
     <<"a","n","s","w","e","r",":">>,
     <<"h","e","r","e"," ","i","s"," ","t","h","e"," ","r","e","s","p","o","n","s","e",":">>,
     <<"h","e","r","e","'","s"," ","t","h","e"," ","r","e","s","p","o","n","s","e",":">> >>

\* the generic filler phrases of isEchoOrPoorResponse
poorResponses ==
  << <<"i"," ","u","n","d","e","r","s","t","a","n","d"," ","y","o","u","r"," ","m","e","s","s","a","g","e">>,
     <<"t","h","a","n","k"," ","y","o","u"," ","f","o","r"," ","s","h","a","r","i","n","g">>,
     <<"i"," ","s","e","e"," ","w","h","a","t"," ","y","o","u"," ","m","e","a","n">>,
     <<"t","h","a","t"," ","m","a","k","e","s"," ","s","e","n","s","e">>,
     <<"i"," ","c","o","m","p","r","e","h","e","n","d">>,
     <<"h","o","w"," ","c","a","n"," ","i"," ","a","s","s","i","s","t"," ","y","o","u"," ","f","u","r","t","h","e","r">>,
     <<"w","h","a","t"," ","c","a","n"," ","i"," ","h","e","l","p"," ","w","i","t","h">> >>

GeminiFileTemplate ==
  <<"I"," ","c","a","n"," ","s","e","e"," ","y","o","u","'","v","e"," ","s","h","a","r","e","d"," ","a"," ","f","i","l","e","."," ","L","e","t"," ","m","e"," ","h","e","l","p"," ","y","o","u"," ","a","n","a","l","y","z","e"," ","o","r"," ","w","o","r","k"," ","w","i","t","h"," ","t","h","i","s"," ","c","o","n","t","e","n","t","."," ","W","h","a","t"," ","w","o","u","l","d"," ","y","o","u"," ","l","i","k","e"," ","m","e"," ","t","o"," ","d","o"," ","w","i","t","h"," ","i","t","?">>

SarvamFileTemplate ==
  <<"I"," ","c","a","n"," ","s","e","e"," ","y","o","u","'","v","e"," ","s","h","a","r","e","d"," ","a"," ","f","i","l","e","."," ","C","o","u","l","d"," ","y","o","u"," ","t","e","l","l"," ","m","e"," ","m","o","r","e"," ","a","b","o","u","t"," ","w","h","a","t"," ","y","o","u","'","d"," ","l","i","k","e"," ","m","e"," ","t","o"," ","h","e","l","p"," ","y","o","u"," ","w","i","t","h"," ","r","e","g","a","r","d","i","n","g"," ","t","h","i","s"," ","f","i","l","e","?">>

CodeTemplate ==
  <<"I"," ","c","a","n"," ","h","e","l","p"," ","y","o","u"," ","w","i","t","h"," ","c","o","d","i","n","g"," ","q","u","e","s","t","i","o","n","s","."," ","W","h","a","t"," ","s","p","e","c","i","f","i","c"," ","p","r","o","g","r","a","m","m","i","n","g"," ","l","a","n","g","u","a","g","e"," ","o","r"," ","p","r","o","b","l","e","m"," ","a","r","e"," ","y","o","u"," ","w","o","r","k","i","n","g"," ","o","n","?">>

HelpTemplate ==
  <<"I","'","m"," ","h","e","r","e"," ","t","o"," ","h","e","l","p","!"," ","C","o","u","l","d"," ","y","o","u"," ","p","r","o","v","i","d","e"," ","m","o","r","e"," ","d","e","t","a","i","l","s"," ","a","b","o","u","t"," ","w","h","a","t"," ","y","o","u"," ","n","e","e","d"," ","a","s","s","i","s","t","a","n","c","e"," ","w","i","t","h","?">>

ExplainTemplate ==
  <<"I","'","d"," ","b","e"," ","h","a","p","p","y"," ","t","o"," ","e","x","p","l","a","i","n"," ","t","h","a","t"," ","f","o","r"," ","y","o","u","."," ","C","o","u","l","d"," ","y","o","u"," ","b","e"," ","m","o","r","e"," ","s","p","e","c","i","f","i","c"," ","a","b","o","u","t"," ","w","h","i","c","h"," ","a","s","p","e","c","t"," ","y","o","u","'","d"," ","l","i","k","e"," ","m","e"," ","t","o"," ","f","o","c","u","s"," ","o","n","?">>

HowTemplate ==
  <<"T","h","a","t","'","s"," ","a"," ","g","r","e","a","t"," ","q","u","e","s","t","i","o","n","!"," ","T","o"," ","g","i","v","e"," ","y","o","u"," ","t","h","e"," ","m","o","s","t"," ","h","e","l","p","f","u","l"," ","a","n","s","w","e","r",","," ","c","o","u","l","d"," ","y","o","u"," ","p","r","o","v","i","d","e"," ","a"," ","b","i","t"," ","m","o","r","e"," ","c","o","n","t","e","x","t"," ","a","b","o","u","t"," ","y","o","u","r"," ","s","i","t","u","a","t","i","o","n","?">>

ImageTemplate ==
  <<"I"," ","c","a","n"," ","h","e","l","p"," ","w","i","t","h"," ","i","m","a","g","e","-","r","e","l","a","t","e","d"," ","q","u","e","s","t","i","o","n","s"," ","o","r"," ","g","e","n","e","r","a","t","e"," ","i","m","a","g","e","s"," ","b","a","s","e","d"," ","o","n"," ","d","e","s","c","r","i","p","t","i","o","n","s","."," ","W","h","a","t"," ","w","o","u","l","d"," ","y","o","u"," ","l","i","k","e"," ","m","e"," ","t","o"," ","c","r","e","a","t","e"," ","o","r"," ","e","x","p","l","a","i","n"," ","a","b","o","u","t"," ","i","m","a","g","e","s","?">>

\* the generic fallback pool of generateContextualFallback (identical in both adapters)
fallbacks ==
  << <<"T","h","a","t","'","s"," ","a","n"," ","i","n","t","e","r","e","s","t","i","n","g"," ","t","o","p","i","c","."," ","W","h","a","t"," ","s","p","e","c","i","f","i","c"," ","a","s","p","e","c","t"," ","w","o","u","l","d"," ","y","o","u"," ","l","i","k","e"," ","t","o"," ","e","x","p","l","o","r","e"," ","f","u","r","t","h","e","r","?">>,
     <<"I","'","d"," ","b","e"," ","h","a","p","p","y"," ","t","o"," ","h","e","l","p"," ","y","o","u"," ","w","i","t","h"," ","t","h","a","t","."," ","C","o","u","l","d"," ","y","o","u"," ","p","r","o","v","i","d","e"," ","m","o","r","e"," ","d","e","t","a","i","l","s"," ","a","b","o","u","t"," ","y","o","u","r"," ","q","u","e","s","t","i","o","n","?">>,
     <<"T","h","a","n","k"," ","y","o","u"," ","f","o","r"," ","y","o","u","r"," ","m","e","s","s","a","g","e","."," ","W","h","a","t"," ","w","o","u","l","d"," ","y","o","u"," ","l","i","k","e"," ","t","o"," ","k","n","o","w"," ","m","o","r","e"," ","a","b","o","u","t","?">>,
     <<"I"," ","u","n","d","e","r","s","t","a","n","d"," ","y","o","u","'","r","e"," ","l","o","o","k","i","n","g"," ","f","o","r"," ","i","n","f","o","r","m","a","t","i","o","n","."," ","W","h","a","t"," ","s","p","e","c","i","f","i","c"," ","d","e","t","a","i","l","s"," ","c","a","n"," ","I"," ","h","e","l","p"," ","y","o","u"," ","w","i","t","h","?">>,
     <<"T","h","a","t","'","s"," ","a"," ","g","o","o","d"," ","p","o","i","n","t","."," ","H","o","w"," ","c","a","n"," ","I"," ","a","s","s","i","s","t"," ","y","o","u"," ","i","n"," ","e","x","p","l","o","r","i","n","g"," ","t","h","i","s"," ","t","o","p","i","c"," ","f","u","r","t","h","e","r","?">> >>

ErrFailedToFetch ==
  <<"F","a","i","l","e","d"," ","t","o"," ","f","e","t","c","h">>

\* the labels removed at line starts by cleanInputMessage
InputLabels ==
  << <<"P","r","e","v","i","o","u","s"," ","c","o","n","v","e","r","s","a","t","i","o","n",":">>,
     <<"C","u","r","r","e","n","t"," ","u","s","e","r"," ","m","e","s","s","a","g","e",":">>,
     <<"C","o","n","t","e","x","t",":">>,
     <<"U","s","e","r"," ","Q","u","e","r","y",":">>,
     <<"A","s","s","i","s","t","a","n","t"," ","R","e","s","p","o","n","s","e",":">> >>

\* the role labels removed at line starts by cleanInputMessage
RoleLabels ==
  << <<"u","s","e","r",":">>,
     <<"a","s","s","i","s","t","a","n","t",":">> >>

(***************************************************************************)
(* Similarity estimator                                                    *)
(***************************************************************************)
\* the minimum of the substitution and insertion cells only
Min3NoDeletion(a, b, c) ==
  IF a <= b THEN a ELSE b

Min3(a, b, c) ==
  IF a <= b THEN (IF a <= c THEN a ELSE c) ELSE (IF b <= c THEN b ELSE c)

\* cells lo..hi of one row of the source's matrix, appended to cur: the row
\* is row i for character ch = str2.charAt(i - 1), prev is row i - 1, cell j
\* is stored at index j + 1 and cur holds the cells 0..lo-1.  The inner loop
\* "for j" is unfolded by halving the range, which keeps the evaluation
\* shallow; the tests on Len(prev) and Len(cur) state the shape of the rows
\* (and make the rows be computed once, before their cells are read).
RECURSIVE levRow(_, _, _, _, _, _)
levRow(str1, ch, prev, cur, lo, hi) ==
  IF lo > hi \/ Len(prev) # Len(str1) + 1 \/ Len(cur) # lo THEN cur
  ELSE IF lo = hi
    THEN Append(cur, IF ch = str1[lo]
                     THEN prev[lo]
                     ELSE Min3(prev[lo] + 1, cur[lo] + 1, prev[lo + 1] + 1))
  ELSE levRow(str1, ch, prev,
              levRow(str1, ch, prev, cur, lo, (lo + hi) \div 2),
              ((lo + hi) \div 2) + 1, hi)

\* rows lo..hi of the matrix computed from row lo - 1 (the outer loop "for i")
RECURSIVE levRows(_, _, _, _, _)
levRows(str1, str2, prev, lo, hi) ==
  IF lo > hi \/ Len(prev) # Len(str1) + 1 THEN prev
  ELSE IF lo = hi THEN levRow(str1, str2[lo], prev, <<lo>>, 1, Len(str1))
  ELSE levRows(str1, str2,
               levRows(str1, str2, prev, lo, (lo + hi) \div 2),
               ((lo + hi) \div 2) + 1, hi)

\* levenshteinDistance(str1, str2) = matrix[str2.length][str1.length]
levenshteinDistance(str1, str2) ==
  levRows(str1, str2, [j \in 1..(Len(str1) + 1) |-> j - 1], 1, Len(str2))[Len(str1) + 1]

\* calculateSimilarity without the test for an empty longer string
calculateSimilarityUnguarded(str1, str2) ==
  LET longer  == IF Len(str1) > Len(str2) THEN str1 ELSE str2
      shorter == IF Len(str1) > Len(str2) THEN str2 ELSE str1
  IN  [num |-> Len(longer) - levenshteinDistance(longer, shorter), den |-> Len(longer)]

\* calculateSimilarity(str1, str2) as the fraction num / den
calculateSimilarity(str1, str2) ==
  LET longer  == IF Len(str1) > Len(str2) THEN str1 ELSE str2
      shorter == IF Len(str1) > Len(str2) THEN str2 ELSE str1
  IN  IF Len(longer) = 0 THEN [num |-> 1, den |-> 1]
      ELSE [num |-> Len(longer) - levenshteinDistance(longer, shorter),
            den |-> Len(longer)]

\* the similarity threshold 0.8 as the fraction SimNum / SimDen
SimNum ==
  8
SimDen ==
  10

\* calculateSimilarity(str1, str2) > 0.8, in integer arithmetic:
\* (longer.length - editDistance) / longer.length > 8 / 10
similarityAboveThreshold(str1, str2) ==
  LET longer  == IF Len(str1) > Len(str2) THEN str1 ELSE str2
      shorter == IF Len(str1) > Len(str2) THEN str2 ELSE str1
  IN  IF Len(longer) = 0 THEN TRUE
      ELSE (Len(longer) - levenshteinDistance(longer, shorter)) * SimDen
             > SimNum * Len(longer)

(***************************************************************************)
(* Response sanitizer                                                      *)
(***************************************************************************)
Adapters ==
  {"gemini", "sarvam"}

prefixesToRemove(ad) ==
  IF ad = "gemini" THEN GeminiPrefixes ELSE SarvamPrefixes

\* slack of the starts-with echo test
EchoSlack ==
  30
\* a filler phrase counts only in a response shorter than this
PoorMaxLen ==
  80
\* a cleaned response shorter than this is replaced by a fallback
MinLength ==
  10
\* the residual-echo trim applies to inputs longer than this
EchoMinInput ==
  10
\* number of leading input characters the residual-echo trim looks for
EchoPrefixLen ==
  20

\* the prefix loop of cleanAndValidateResponse: one pass over the list, each
\* prefix removed (with the whitespace after it) when the text starts with it
RECURSIVE stripPrefixes(_, _, _)
stripPrefixes(prefixes, cleaned, k) ==
  IF k > Len(prefixes) \/ Len(cleaned) = 0 THEN cleaned
  ELSE stripPrefixes(prefixes,
         IF startsWith(toLowerCase(cleaned), prefixes[k])
         THEN trim(dropFirst(cleaned, Len(prefixes[k])))
         ELSE cleaned,
         k + 1)

isEchoOrPoorResponse(userMessage, aiResponse) ==
  LET userLower == trim(toLowerCase(userMessage))
      aiLower   == trim(toLowerCase(aiResponse))
  IN  \/ userLower = aiLower
      \/ startsWith(aiLower, userLower) /\ Len(aiLower) < Len(userLower) + EchoSlack
      \/ similarityAboveThreshold(userLower, aiLower)
      \/ \E p \in 1..Len(poorResponses) :
           includes(aiLower, poorResponses[p]) /\ Len(aiLower) < PoorMaxLen

\* rnd is Math.floor(Math.random() * fallbacks.length)
generateContextualFallback(ad, message, rnd) ==
  LET messageLower == toLowerCase(message)
      has(k) == includes(messageLower, k)
  IN  IF has(<<"f","i","l","e">>) \/ has(<<"u","p","l","o","a","d">>) \/ has(<<"i","m","a","g","e">>)
        THEN (IF ad = "gemini" THEN GeminiFileTemplate ELSE SarvamFileTemplate)
      ELSE IF has(<<"c","o","d","e">>) \/ has(<<"p","r","o","g","r","a","m">>) THEN CodeTemplate
      ELSE IF has(<<"h","e","l","p">>) \/ has(<<"a","s","s","i","s","t">>) THEN HelpTemplate
      ELSE IF has(<<"e","x","p","l","a","i","n">>) \/ has(<<"w","h","a","t"," ","i","s">>) THEN ExplainTemplate
      ELSE IF has(<<"h","o","w">>) THEN HowTemplate
      ELSE IF ad = "gemini" /\ (has(<<"i","m","a","g","e">>) \/ has(<<"p","i","c","t","u","r","e">>) \/ has(<<"d","r","a","w">>))
        THEN ImageTemplate
      ELSE fallbacks[rnd + 1]

\* the residual-echo trim at the end of cleanAndValidateResponse
residualTrim(cleaned, userInput) ==
  LET head == substring0(userInput, EchoPrefixLen)
  IN  IF /\ Len(userInput) > EchoMinInput
         /\ includes(toLowerCase(cleaned), substring0(toLowerCase(userInput), EchoPrefixLen))
         /\ splitHasSecond(cleaned, head)
         /\ Len(trim(splitSecond(cleaned, head))) > 0
      THEN trim(splitSecond(cleaned, head))
      ELSE cleaned

cleanAndValidateResponse(ad, response, userInput, rnd) ==
  LET cleaned == stripPrefixes(prefixesToRemove(ad), response, 1)
  IN  IF isEchoOrPoorResponse(userInput, cleaned)
        THEN generateContextualFallback(ad, userInput, rnd)
      ELSE IF Len(cleaned) < MinLength
        THEN generateContextualFallback(ad, userInput, rnd)
      ELSE residualTrim(cleaned, userInput)


(***************************************************************************)
(* AI gateway adapter: cleanInputMessage and sendMessage                   *)
(***************************************************************************)
\* ^ under the m flag: the start of the text or just after a line terminator
lineStart(s, i) ==
  i = 1 \/ s[i - 1] \in {"\n", "\r"}

\* number of consecutive whitespace characters from position j on (\s*)
wsRun(s, j) ==
  LET nonws == {k \in j..Len(s) : ~IsWs(s[k])}
  IN  IF nonws = {} THEN (IF j > Len(s) THEN 0 ELSE Len(s) - j + 1)
      ELSE MinOf(nonws) - j

\* length of the match at position i of one of cleanInputMessage's three
\* regular expressions, 0 when it does not match there
matchLen(kind, s, i) ==
  IF ~lineStart(s, i) THEN 0
  ELSE IF kind = "labels" THEN
    LET ks == {k \in 1..Len(InputLabels) : matchAt(s, InputLabels[k], i)}
    IN  IF ks = {} THEN 0 ELSE Len(InputLabels[MinOf(ks)])
  ELSE IF kind = "roles" THEN
    LET ks == {k \in 1..Len(RoleLabels) : matchAt(s, RoleLabels[k], i)}
    IN  IF ks = {} THEN 0
        ELSE Len(RoleLabels[MinOf(ks)]) + wsRun(s, i + Len(RoleLabels[MinOf(ks)]))
  ELSE \* "bracket": ^\[.*?\]\s*
    IF s[i] # "[" THEN 0
    ELSE LET closes == {j \in (i + 1)..Len(s) : s[j] = "]"}
         IN  IF closes = {} THEN 0
             ELSE LET j == MinOf(closes)
                  IN  IF \E k \in (i + 1)..(j - 1) : s[k] \in {"\n", "\r"} THEN 0
                      ELSE j - i + 1 + wsRun(s, j + 1)

\* position of the first match at or after position i, 0 when there is none
nextMatch(kind, s, i) ==
  LET at == {j \in i..Len(s) : matchLen(kind, s, j) > 0}
  IN  IF at = {} THEN 0 ELSE MinOf(at)

\* String.prototype.replace(regex /.../gm, ''): every match removed, scanning
\* the text from left to right and resuming behind each match
RECURSIVE replaceAll(_, _, _)
replaceAll(kind, s, i) ==
  IF i > Len(s) THEN <<>>
  ELSE IF nextMatch(kind, s, i) = 0 THEN SubSeq(s, i, Len(s))
  ELSE SubSeq(s, i, nextMatch(kind, s, i) - 1)
         \o replaceAll(kind, s,
              nextMatch(kind, s, i) + matchLen(kind, s, nextMatch(kind, s, i)))

cleanInputMessage(message) ==
  LET c1 == trim(replaceAll("labels", message, 1))
      c2 == trim(replaceAll("roles", c1, 1))
  IN  replaceAll("bracket", c2, 1)

\* the outcome of the fetch and of reading its body:
\*   reject           fetch rejected with an error whose message is text
\*   status           a non-2xx answer with status code and body text
\*   badjson          2xx, response.json() throws
\*   nocandidates, emptycandidates, noparts
\*                    2xx, a payload without generated text
\*   text             2xx, a payload carrying text (possibly blank)
Resolved(v) ==
  [settled |-> "resolved", value |-> v]
Rejected(v) ==
  [settled |-> "rejected", value |-> v]

\* a catch block that hands the error on to the caller instead of answering
geminiCatchRethrows(msg) ==
  Rejected(msg)

\* the catch block of GeminiAI.sendMessage
geminiCatch(msg) ==
  IF includes(msg, ErrFailedToFetch) \/ includes(msg, <<"n","e","t","w","o","r","k">>)
    THEN Resolved(<<"I","'","m"," ","h","a","v","i","n","g"," ","t","r","o","u","b","l","e"," ","c","o","n","n","e","c","t","i","n","g"," ","t","o"," ","t","h","e"," ","A","I"," ","s","e","r","v","i","c","e","."," ","P","l","e","a","s","e"," ","c","h","e","c","k"," ","y","o","u","r"," ","i","n","t","e","r","n","e","t"," ","c","o","n","n","e","c","t","i","o","n"," ","a","n","d"," ","t","r","y"," ","a","g","a","i","n",".">>)
  ELSE IF includes(msg, <<"A","P","I"," ","k","e","y">>) THEN Resolved(<<"T","h","e","r","e"," ","s","e","e","m","s"," ","t","o"," ","b","e"," ","a","n"," ","i","s","s","u","e"," ","w","i","t","h"," ","t","h","e"," ","A","P","I"," ","c","o","n","f","i","g","u","r","a","t","i","o","n","."," ","P","l","e","a","s","e"," ","c","o","n","t","a","c","t"," ","s","u","p","p","o","r","t",".">>)
  ELSE IF includes(msg, <<"q","u","o","t","a">>) \/ includes(msg, <<"l","i","m","i","t">>)
    THEN Resolved(<<"I","'","v","e"," ","r","e","a","c","h","e","d"," ","m","y"," ","u","s","a","g","e"," ","l","i","m","i","t"," ","f","o","r"," ","n","o","w","."," ","P","l","e","a","s","e"," ","t","r","y"," ","a","g","a","i","n"," ","i","n"," ","a"," ","m","o","m","e","n","t",".">>)
  ELSE Resolved(<<"I"," ","e","n","c","o","u","n","t","e","r","e","d"," ","a","n"," ","u","n","e","x","p","e","c","t","e","d"," ","e","r","r","o","r","."," ","P","l","e","a","s","e"," ","t","r","y"," ","r","e","p","h","r","a","s","i","n","g"," ","y","o","u","r"," ","q","u","e","s","t","i","o","n"," ","o","r"," ","t","r","y"," ","a","g","a","i","n",".">>)

\* the catch block of ImprovedSarvamAI.sendMessage
sarvamCatch(msg) ==
  IF includes(msg, ErrFailedToFetch) THEN Resolved(<<"I","'","m"," ","h","a","v","i","n","g"," ","t","r","o","u","b","l","e"," ","c","o","n","n","e","c","t","i","n","g"," ","t","o"," ","t","h","e"," ","A","I"," ","s","e","r","v","i","c","e","."," ","P","l","e","a","s","e"," ","c","h","e","c","k"," ","y","o","u","r"," ","i","n","t","e","r","n","e","t"," ","c","o","n","n","e","c","t","i","o","n"," ","a","n","d"," ","t","r","y"," ","a","g","a","i","n",".">>)
  ELSE Resolved(<<"I"," ","a","p","o","l","o","g","i","z","e",","," ","b","u","t"," ","I","'","m"," ","h","a","v","i","n","g"," ","t","r","o","u","b","l","e"," ","p","r","o","c","e","s","s","i","n","g"," ","y","o","u","r"," ","r","e","q","u","e","s","t"," ","r","i","g","h","t"," ","n","o","w","."," ","C","o","u","l","d"," ","y","o","u"," ","p","l","e","a","s","e"," ","t","r","y"," ","r","e","p","h","r","a","s","i","n","g"," ","y","o","u","r"," ","q","u","e","s","t","i","o","n","?">>)

\* the text sendMessage extracts from the payload before sanitizing, and the
\* message of the error thrown in the try block (<<>> when none is thrown)
geminiThrown(h) ==
  CASE h.kind = "reject" -> h.text
    [] h.kind = "status" -> <<"G","e","m","i","n","i"," ","A","P","I"," ","e","r","r","o","r",":"," ">> \o h.code \o <<" ","-"," ">> \o h.text
    [] h.kind = "badjson" -> <<"U","n","e","x","p","e","c","t","e","d"," ","t","o","k","e","n"," ","<"," ","i","n"," ","J","S","O","N"," ","a","t"," ","p","o","s","i","t","i","o","n"," ","0">>
    [] h.kind \in {"nocandidates", "emptycandidates"} -> <<"N","o"," ","r","e","s","p","o","n","s","e"," ","c","a","n","d","i","d","a","t","e","s"," ","f","r","o","m"," ","G","e","m","i","n","i">>
    [] h.kind = "noparts" -> <<"I","n","v","a","l","i","d"," ","r","e","s","p","o","n","s","e"," ","s","t","r","u","c","t","u","r","e"," ","f","r","o","m"," ","G","e","m","i","n","i">>
    [] h.kind = "text" -> IF Len(h.text) = 0 \/ Len(trim(h.text)) = 0
                          THEN <<"E","m","p","t","y"," ","r","e","s","p","o","n","s","e"," ","f","r","o","m"," ","G","e","m","i","n","i">> ELSE <<>>

sarvamThrown(h) ==
  CASE h.kind = "reject" -> h.text
    [] h.kind = "status" -> <<"F","a","i","l","e","d"," ","t","o"," ","g","e","t"," ","r","e","s","p","o","n","s","e"," ","f","r","o","m"," ","S","a","r","v","a","m"," ","A","I",":"," ">> \o h.code
    [] h.kind = "badjson" -> <<"U","n","e","x","p","e","c","t","e","d"," ","t","o","k","e","n"," ","<"," ","i","n"," ","J","S","O","N"," ","a","t"," ","p","o","s","i","t","i","o","n"," ","0">>
    [] OTHER -> <<>>

\* data.translated_text || "I understand. How can I assist you further?"
sarvamText(h) ==
  IF h.kind = "text" /\ Len(h.text) > 0 THEN h.text ELSE <<"I"," ","u","n","d","e","r","s","t","a","n","d","."," ","H","o","w"," ","c","a","n"," ","I"," ","a","s","s","i","s","t"," ","y","o","u"," ","f","u","r","t","h","e","r","?">>

sendMessage(ad, msg, h, rnd) ==
  LET cleanInput == cleanInputMessage(msg)
  IN  IF ad = "gemini"
      THEN IF geminiThrown(h) # <<>> THEN geminiCatch(geminiThrown(h))
           ELSE Resolved(cleanAndValidateResponse(ad, h.text, cleanInput, rnd))
      ELSE IF sarvamThrown(h) # <<>> THEN sarvamCatch(sarvamThrown(h))
           ELSE Resolved(cleanAndValidateResponse(ad, sarvamText(h), cleanInput, rnd))

ApologyStrings(ad) ==
  IF ad = "gemini"
  THEN {<<"I","'","m"," ","h","a","v","i","n","g"," ","t","r","o","u","b","l","e"," ","c","o","n","n","e","c","t","i","n","g"," ","t","o"," ","t","h","e"," ","A","I"," ","s","e","r","v","i","c","e","."," ","P","l","e","a","s","e"," ","c","h","e","c","k"," ","y","o","u","r"," ","i","n","t","e","r","n","e","t"," ","c","o","n","n","e","c","t","i","o","n"," ","a","n","d"," ","t","r","y"," ","a","g","a","i","n",".">>, <<"T","h","e","r","e"," ","s","e","e","m","s"," ","t","o"," ","b","e"," ","a","n"," ","i","s","s","u","e"," ","w","i","t","h"," ","t","h","e"," ","A","P","I"," ","c","o","n","f","i","g","u","r","a","t","i","o","n","."," ","P","l","e","a","s","e"," ","c","o","n","t","a","c","t"," ","s","u","p","p","o","r","t",".">>, <<"I","'","v","e"," ","r","e","a","c","h","e","d"," ","m","y"," ","u","s","a","g","e"," ","l","i","m","i","t"," ","f","o","r"," ","n","o","w","."," ","P","l","e","a","s","e"," ","t","r","y"," ","a","g","a","i","n"," ","i","n"," ","a"," ","m","o","m","e","n","t",".">>, <<"I"," ","e","n","c","o","u","n","t","e","r","e","d"," ","a","n"," ","u","n","e","x","p","e","c","t","e","d"," ","e","r","r","o","r","."," ","P","l","e","a","s","e"," ","t","r","y"," ","r","e","p","h","r","a","s","i","n","g"," ","y","o","u","r"," ","q","u","e","s","t","i","o","n"," ","o","r"," ","t","r","y"," ","a","g","a","i","n",".">>}
  ELSE {<<"I","'","m"," ","h","a","v","i","n","g"," ","t","r","o","u","b","l","e"," ","c","o","n","n","e","c","t","i","n","g"," ","t","o"," ","t","h","e"," ","A","I"," ","s","e","r","v","i","c","e","."," ","P","l","e","a","s","e"," ","c","h","e","c","k"," ","y","o","u","r"," ","i","n","t","e","r","n","e","t"," ","c","o","n","n","e","c","t","i","o","n"," ","a","n","d"," ","t","r","y"," ","a","g","a","i","n",".">>, <<"I"," ","a","p","o","l","o","g","i","z","e",","," ","b","u","t"," ","I","'","m"," ","h","a","v","i","n","g"," ","t","r","o","u","b","l","e"," ","p","r","o","c","e","s","s","i","n","g"," ","y","o","u","r"," ","r","e","q","u","e","s","t"," ","r","i","g","h","t"," ","n","o","w","."," ","C","o","u","l","d"," ","y","o","u"," ","p","l","e","a","s","e"," ","t","r","y"," ","r","e","p","h","r","a","s","i","n","g"," ","y","o","u","r"," ","q","u","e","s","t","i","o","n","?">>}

\* every string generateContextualFallback can return
FallbackStrings(ad) ==
  {fallbacks[k] : k \in 1..Len(fallbacks)}
    \cup {CodeTemplate, HelpTemplate, ExplainTemplate, HowTemplate}
    \cup (IF ad = "gemini" THEN {GeminiFileTemplate, ImageTemplate} ELSE {SarvamFileTemplate})

GenericPool ==
  {fallbacks[k] : k \in 1..Len(fallbacks)}


(***************************************************************************)
(* State                                                                   *)
(***************************************************************************)
\* the adapter call under test
VARIABLES
  ad,        \* which adapter instance is exercised: "gemini" or "sarvam"
  message,   \* the user input given to sendMessage / the sanitizer
  response,  \* the raw model text given to the sanitizer
  http,      \* the outcome of the fetch of sendMessage
  result,    \* the string returned (the value the promise settles with)
  settled,   \* "pending", "resolved" or "rejected"
  pc         \* position of the call: "ready", "fetching", "done"

avars ==
  <<ad, message, response, http, result, settled, pc>>

\* the chat view, the sidebar and the messages table
VARIABLES
  currentSessionId,  \* useState: the active selection, NULL for none
  messages,          \* useState: the displayed list
  isLoading,         \* useState
  isTyping,          \* useState
  isLoadingHistory,  \* useState: TRUE until the first history load returns
  isFirstMessage,    \* useState
  send,              \* the running handleSendMessage call and its position
  sendCount,         \* number of sends so far (ids of local messages)
  userActions,       \* number of user actions so far
  aiSaves,           \* AI messages whose insert is in flight
  db,                \* rows of the messages table, in creation order
  loads,             \* loadChatHistory calls in flight: bag of captured ids
  deletes,           \* deleteSession calls: [sid, cur (captured), pc]
  sessions,          \* sidebar useState: ids of the listed sessions
  sessionsPending    \* a loadChatSessions call is in flight

uvars ==
  <<currentSessionId, messages, isLoading, isTyping, isLoadingHistory,
    isFirstMessage, send, sendCount, userActions, aiSaves, db, loads,
    deletes, sessions, sessionsPending>>

\* the helper functions under test
VARIABLES
  revision,      \* which revision of a helper is exercised
  sends,         \* the handleSendMessage calls of part_002 that have not returned
  clock,         \* time of the latest insert into the messages table
  sessionLoads   \* loadChatSessions calls in flight: [n, read, rows]

\* attachments, object URLs and the image generation of the chat view
VARIABLES
  selectedFiles,      \* useState: the pending attachments, [id, type, preview, url]
  uploads,            \* onDrop calls in flight: [files, captured (selectedFiles)]
  uploading,          \* MediaUpload useState
  objectUrls,         \* URLs made by URL.createObjectURL and not revoked
  sentFiles,          \* attachments (mediaFiles) of the displayed messages
  audioUrl,           \* AudioRecorder useState: URL of the latest recording
  mounted,            \* the chat view is mounted
  fileCount,          \* number of files accepted or recorded so far
  isGeneratingImage   \* useState

mvars ==
  <<selectedFiles, uploads, uploading, objectUrls, sentFiles, audioUrl,
    mounted, fileCount, isGeneratingImage>>

hvars ==
  <<revision, sends, clock, sessionLoads, mvars>>

vars ==
  <<avars, uvars, hvars>>

NoHttp ==
  [kind |-> "none", code |-> <<>>, text |-> <<>>]


(***************************************************************************)
(* Session-aware chat view (EnhancedChatInterface) and sidebar             *)
(***************************************************************************)
\* session ids are pairs <<kind, n>>
NULL ==
  <<"null", 0>>
\* session_id of the welcome message
Welcome ==
  <<"welcome", 0>>
\* session_id given to loaded rows that carry none
Legacy ==
  <<"legacy", 0>>
\* placeholder used by a send that has no session id
TempSession ==
  <<"temp-session", 0>>
\* the k-th id produced by createNewSession (`session_${Date.now()}_${random}`)
FreshSession(k) ==
  <<"session", k>>

\* user actions (send, new chat, select, delete) per behaviour
MaxUserActions ==
  2

\* rows of the messages table when the component mounts: two earlier
\* conversations, in creation order
InitialRows ==
  << [id |-> <<"stored", 1>>, session_id |-> <<"stored", 1>>, sender |-> "user", content |-> "text"],
     [id |-> <<"stored", 2>>, session_id |-> <<"stored", 1>>, sender |-> "ai", content |-> "reply"],
     [id |-> <<"stored", 3>>, session_id |-> <<"stored", 2>>, sender |-> "user", content |-> "text"] >>

IdleSend ==
  [pc |-> "idle", sessionId |-> NULL, image |-> FALSE, content |-> "none"]

\* a query without the session filter, as loadChatHistory of ChatInterface.tsx
rowsOfAnySession(rows, sid) ==
  rows

\* selectSeq(s, P) without a higher-order argument: the rows of one session
RECURSIVE rowsOf(_, _)
rowsOf(rows, sid) ==
  IF rows = <<>> THEN <<>>
  ELSE IF Head(rows).session_id = sid
    THEN <<Head(rows)>> \o rowsOf(Tail(rows), sid)
    ELSE rowsOf(Tail(rows), sid)

\* a delete filtered by user_id only: every row of the user goes
rowsOfNoSession(rows, sid) ==
  <<>>

RECURSIVE rowsNotOf(_, _)
rowsNotOf(rows, sid) ==
  IF rows = <<>> THEN <<>>
  ELSE IF Head(rows).session_id # sid
    THEN <<Head(rows)>> \o rowsNotOf(Tail(rows), sid)
    ELSE rowsNotOf(Tail(rows), sid)

\* the mapping of loadChatHistory from a row to a displayed message
formatRow(row) ==
  [id |-> <<"db", row.id>>,
   session_id |-> IF row.session_id = NULL THEN Legacy ELSE row.session_id,
   sender |-> row.sender,
   content |-> row.content]

formattedMessages(rows) ==
  [i \in 1..Len(rows) |-> formatRow(rows[i])]

welcomeMessage(id) ==
  [id |-> <<id, 0>>, session_id |-> Welcome, sender |-> "ai", content |-> "welcome"]

\* an effect whose dependency list lacks currentSessionId: it runs on mount only
effectLoadOnMountOnly(old, new, L) ==
  L

\* useEffect([user.id, currentSessionId]): a change of currentSessionId
\* invokes loadChatHistory, which captures the new value
effectLoad(old, new, L) ==
  IF old # new THEN L (+) SetToBag({new}) ELSE L

\* supabase.from('messages').insert(messageData) of saveMessageToDatabase
insertRow(rows, id, sessionId, sender, content) ==
  Append(rows,
    [id |-> id,
     session_id |-> IF sessionId \in {TempSession, Welcome} THEN NULL ELSE sessionId,
     sender |-> sender,
     content |-> content])

UiInit ==
  /\ currentSessionId = NULL
  /\ messages = <<>>
  /\ isLoading = FALSE
  /\ isTyping = FALSE
  /\ isLoadingHistory = TRUE
  /\ isFirstMessage = TRUE
  /\ send = IdleSend
  /\ sendCount = 0
  /\ userActions = 0
  /\ aiSaves = {}
  /\ db = InitialRows
  /\ loads = SetToBag({NULL})
  /\ deletes = {}
  /\ sessions = {}
  /\ sessionsPending = FALSE

\* loadChatHistory returns, for the call that captured selection s
LoadChatHistoryOk(s) ==
  /\ BagIn(s, loads)
  /\ loads' = loads (-) SetToBag({s})
  /\ LET formatted == formattedMessages(rowsOf(db, s))
     IN  /\ messages' = IF Len(formatted) = 0 /\ s = NULL
                        THEN <<welcomeMessage("welcome")>>
                        ELSE formatted
         /\ isFirstMessage' = (Len(formatted) = 0)
  /\ isLoadingHistory' = FALSE
  /\ sessionsPending' = (sessionsPending \/ isLoadingHistory)
  /\ UNCHANGED <<currentSessionId, isLoading, isTyping, send, sendCount, userActions,
                 aiSaves, db, deletes, sessions>>
  /\ UNCHANGED avars
  /\ UNCHANGED hvars

\* loadChatHistory: the query answers with an error, or throws
LoadChatHistoryError(s) ==
  /\ BagIn(s, loads)
  /\ loads' = loads (-) SetToBag({s})
  /\ messages' = <<>>
  /\ isFirstMessage' = TRUE
  /\ isLoadingHistory' = FALSE
  /\ sessionsPending' = (sessionsPending \/ isLoadingHistory)
  /\ UNCHANGED <<currentSessionId, isLoading, isTyping, send, sendCount, userActions,
                 aiSaves, db, deletes, sessions>>
  /\ UNCHANGED avars
  /\ UNCHANGED hvars

LoadChatHistoryDone ==
  \E s \in BagToSet(loads) : LoadChatHistoryOk(s) \/ LoadChatHistoryError(s)

\* handleSendMessage up to its first await of saveMessageToDatabase.
\* withText: inputValue.trim() is not empty; withFiles: files are selected
HandleSendMessage(isImage, withText, withFiles) ==
  /\ ~isLoadingHistory
  /\ withText \/ withFiles
  /\ isImage => withText
  /\ ~isLoading
  /\ userActions < MaxUserActions
  /\ userActions' = userActions + 1
  /\ LET created   == currentSessionId = NULL /\ withText
         sessionId == IF currentSessionId # NULL THEN currentSessionId
                      ELSE IF withText THEN FreshSession(sendCount + 1)
                      ELSE TempSession
         content   == IF withText THEN "text" ELSE "media"
         userMessage == [id |-> <<"local", sendCount + 1>>, session_id |-> sessionId,
                         sender |-> "user", content |-> content]
     IN  /\ currentSessionId' = IF created THEN sessionId ELSE currentSessionId
         /\ loads' = effectLoad(currentSessionId, currentSessionId', loads)
         /\ messages' = Append(messages, userMessage)
         /\ send' = [pc |-> "saveUser", sessionId |-> sessionId,
                     image |-> isImage, content |-> content]
  /\ sendCount' = sendCount + 1
  /\ isLoading' = TRUE
  /\ isTyping' = TRUE
  /\ isFirstMessage' = FALSE
  /\ UNCHANGED <<isLoadingHistory, aiSaves, db, deletes,
                 sessions, sessionsPending>>
  /\ UNCHANGED avars
  /\ UNCHANGED hvars

SendText ==
  \E withText, withFiles \in BOOLEAN : HandleSendMessage(FALSE, withText, withFiles)

SendImageGeneration ==
  \E withFiles \in BOOLEAN : HandleSendMessage(TRUE, TRUE, withFiles)

\* saveMessageToDatabase of the user message returns (inserted or failed);
\* the handler goes on to call the AI or the image endpoint
SaveUserMessageDone ==
  /\ send.pc = "saveUser"
  /\ \E ok \in BOOLEAN :
       IF ok
       THEN /\ db' = insertRow(db, <<"user", sendCount>>, send.sessionId, "user", send.content)
            /\ sessionsPending' = TRUE
       ELSE UNCHANGED <<db, sessionsPending>>
  /\ send' = [send EXCEPT !.pc = IF send.image THEN "awaitImage" ELSE "awaitAI"]
  /\ UNCHANGED <<currentSessionId, messages, isLoading, isTyping, isLoadingHistory,
                 isFirstMessage, sendCount, userActions, aiSaves, loads, deletes, sessions>>
  /\ UNCHANGED avars
  /\ UNCHANGED hvars

\* the AI message of a send is displayed and its insert is started
appendAiMessage(content) ==
  /\ messages' = Append(messages,
       [id |-> <<"local-ai", sendCount>>, session_id |-> send.sessionId,
        sender |-> "ai", content |-> content])
  /\ isTyping' = FALSE
  /\ isLoading' = FALSE
  /\ aiSaves' = aiSaves \cup {[n |-> sendCount, sessionId |-> send.sessionId, content |-> content]}
  /\ send' = [send EXCEPT !.pc = "done"]

\* sarvamAI.sendMessage resolves, with the model's reply or with an apology
AiResponseArrives ==
  /\ send.pc = "awaitAI"
  /\ appendAiMessage("reply")
  /\ UNCHANGED <<currentSessionId, isLoadingHistory, isFirstMessage, sendCount, userActions,
                 db, loads, deletes, sessions, sessionsPending>>
  /\ UNCHANGED avars
  /\ UNCHANGED hvars

\* generateImage resolves with a url
ImageGenerated ==
  /\ send.pc = "awaitImage"
  /\ appendAiMessage("image")
  /\ UNCHANGED <<currentSessionId, isLoadingHistory, isFirstMessage, sendCount, userActions,
                 db, loads, deletes, sessions, sessionsPending>>
  /\ UNCHANGED avars
  /\ UNCHANGED hvars

\* generateImage catches a failure of the endpoint and resolves with null:
\* the handler skips the `if (imageUrl)` block and returns
ImageGenerationFails ==
  /\ send.pc = "awaitImage"
  /\ send' = [send EXCEPT !.pc = "done"]
  /\ UNCHANGED <<currentSessionId, messages, isLoading, isTyping, isLoadingHistory,
                 isFirstMessage, sendCount, userActions, aiSaves, db, loads, deletes,
                 sessions, sessionsPending>>
  /\ UNCHANGED avars
  /\ UNCHANGED hvars

\* saveMessageToDatabase of an AI message returns (inserted or failed)
SaveAiMessageDone ==
  \E x \in aiSaves :
    /\ aiSaves' = aiSaves \ {x}
    /\ \E ok \in BOOLEAN :
         IF ok
         THEN /\ db' = insertRow(db, <<"ai", x.n>>, x.sessionId, "ai", x.content)
              /\ sessionsPending' = TRUE
         ELSE UNCHANGED <<db, sessionsPending>>
    /\ UNCHANGED <<currentSessionId, messages, isLoading, isTyping, isLoadingHistory,
                   isFirstMessage, send, sendCount, userActions, loads, deletes, sessions>>
  /\ UNCHANGED avars
  /\ UNCHANGED hvars

HandleNewChat ==
  /\ ~isLoadingHistory
  /\ userActions < MaxUserActions
  /\ userActions' = userActions + 1
  /\ currentSessionId' = NULL
  /\ loads' = effectLoad(currentSessionId, NULL, loads)
  /\ messages' = <<welcomeMessage("welcome-new")>>
  /\ isFirstMessage' = TRUE
  /\ UNCHANGED <<isLoading, isTyping, isLoadingHistory, send, sendCount, aiSaves,
                 db, deletes, sessions, sessionsPending>>
  /\ UNCHANGED avars
  /\ UNCHANGED hvars

\* handleSessionSelect(sessionId) and the effect it triggers
selectSession(sessionId) ==
  /\ currentSessionId' = sessionId
  /\ loads' = effectLoad(currentSessionId, sessionId, loads)
  /\ messages' = <<>>
  /\ isFirstMessage' = (sessionId = NULL)

\* the user picks a session of the sidebar list
HandleSessionSelect ==
  /\ ~isLoadingHistory
  /\ userActions < MaxUserActions
  /\ userActions' = userActions + 1
  /\ \E s \in sessions : selectSession(s)
  /\ UNCHANGED <<isLoading, isTyping, isLoadingHistory, send, sendCount,
                 aiSaves, db, deletes, sessions, sessionsPending>>
  /\ UNCHANGED avars
  /\ UNCHANGED hvars

\* the user deletes a session of the sidebar list: deleteSession(s) sends the
\* delete request; its closure holds the currentSessionId prop of this render
DeleteSessionStarts ==
  /\ ~isLoadingHistory
  /\ userActions < MaxUserActions
  /\ userActions' = userActions + 1
  /\ \E s \in sessions :
       deletes' = deletes \cup {[sid |-> s, cur |-> currentSessionId, pc |-> "pending"]}
  /\ UNCHANGED <<currentSessionId, messages, isLoading, isTyping, isLoadingHistory,
                 isFirstMessage, send, sendCount, aiSaves, db, loads,
                 sessions, sessionsPending>>
  /\ UNCHANGED avars
  /\ UNCHANGED hvars

\* the delete request succeeds: the rows are gone, the list is filtered and
\* onSessionSelect(null) is called when the captured selection was s
DeleteSessionOk(d) ==
  /\ d \in deletes /\ d.pc = "pending"
  /\ deletes' = (deletes \ {d}) \cup {[d EXCEPT !.pc = "ok"]}
  /\ db' = rowsNotOf(db, d.sid)
  /\ sessionsPending' = TRUE
  /\ sessions' = sessions \ {d.sid}
  /\ IF d.cur = d.sid
     THEN selectSession(NULL)
     ELSE UNCHANGED <<currentSessionId, loads, messages, isFirstMessage>>
  /\ UNCHANGED <<isLoading, isTyping, isLoadingHistory, send, sendCount, userActions, aiSaves>>
  /\ UNCHANGED avars
  /\ UNCHANGED hvars

\* the delete request answers with an error, or throws
DeleteSessionError(d) ==
  /\ d \in deletes /\ d.pc = "pending"
  /\ deletes' = (deletes \ {d}) \cup {[d EXCEPT !.pc = "error"]}
  /\ UNCHANGED <<currentSessionId, messages, isLoading, isTyping, isLoadingHistory,
                 isFirstMessage, send, sendCount, userActions, aiSaves, db, loads,
                 sessions, sessionsPending>>
  /\ UNCHANGED avars
  /\ UNCHANGED hvars

DeleteSessionDone ==
  \E d \in deletes : DeleteSessionOk(d) \/ DeleteSessionError(d)

\* ids of the sessions that loadChatSessions derives from the rows
sessionIdsOf(rows) ==
  {rows[i].session_id : i \in 1..Len(rows)} \ {NULL, Welcome}

\* loadChatSessions returns (started on mount and on every change of the
\* messages table reported by the realtime subscription)
LoadChatSessionsDone ==
  /\ sessionsPending
  /\ sessionsPending' = FALSE
  /\ \E ok \in BOOLEAN : sessions' = IF ok THEN sessionIdsOf(db) ELSE {}
  /\ UNCHANGED <<currentSessionId, messages, isLoading, isTyping, isLoadingHistory,
                 isFirstMessage, send, sendCount, userActions, aiSaves, db, loads,
                 deletes>>
  /\ UNCHANGED avars
  /\ UNCHANGED hvars

UiNext ==
  \/ LoadChatHistoryDone
  \/ SendText
  \/ SendImageGeneration
  \/ SaveUserMessageDone
  \/ AiResponseArrives
  \/ ImageGenerated
  \/ ImageGenerationFails
  \/ SaveAiMessageDone
  \/ HandleNewChat
  \/ HandleSessionSelect
  \/ DeleteSessionStarts
  \/ DeleteSessionDone
  \/ LoadChatSessionsDone


\* the adapter is not exercised by the chat-view specification
AdapterIdle ==
  /\ ad = "sarvam"
  /\ message = <<>>
  /\ response = <<>>
  /\ http = NoHttp
  /\ result = <<>>
  /\ settled = "pending"
  /\ pc = "ready"

\* the value of a url field that is not set
NoUrl ==
  <<"none", 0>>

\* no attachment, no recording, no image generation
MediaIdle ==
  /\ selectedFiles = <<>>
  /\ uploads = {}
  /\ uploading = FALSE
  /\ objectUrls = {}
  /\ sentFiles = {}
  /\ audioUrl = NoUrl
  /\ mounted = TRUE
  /\ fileCount = 0
  /\ isGeneratingImage = FALSE

\* no helper is exercised
HelpersIdle ==
  /\ revision = "none"
  /\ sends = {}
  /\ clock = 0
  /\ sessionLoads = {}
  /\ MediaIdle

Init ==
  UiInit /\ AdapterIdle /\ HelpersIdle

Next ==
  UiNext

Spec ==
  Init /\ [][Next]_vars

(***************************************************************************)
(* Inputs of the sanitizer and adapter specifications                      *)
(***************************************************************************)
AnswerText ==
  <<"C","a","t","s"," ","a","r","e"," ","s","m","a","l","l"," ","m","a","m","m","a","l","s"," ","t","h","a","t"," ","p","u","r","r",".">>

(***************************************************************************)
(* SanSpec: the sanitizer applied to bounded raw responses and inputs      *)
(***************************************************************************)
\* repetitions of a filler character, used to probe the 30-character slack
Pad(n) ==
  [i \in 1..n |-> "x"]

\* raw responses probing an input: the input itself, its first characters or
\* an unrelated answer, behind one label or two and followed by some further
\* text
RawsFor(input) ==
  {lead \o mid \o tail :
     lead \in {<<>>, <<"R","e","s","p","o","n","s","e",":"," ">>, <<"U","s","e","r",":"," ">>,
               <<"R","e","s","p","o","n","s","e",":"," ","U","s","e","r",":"," ">>,
               <<"U","s","e","r",":"," ","R","e","s","p","o","n","s","e",":"," ">>,
               <<"Y","o","u"," ","a","s","k","e","d",":"," ">>, <<" "," ">>},
     mid \in {input, substring0(input, EchoPrefixLen), AnswerText},
     tail \in {<<>>, <<" ","o","k">>, <<"m"," ","o","k">>, Pad(EchoSlack - 1), Pad(EchoSlack)}}

\* Math.floor(Math.random() * fallbacks.length)
RandomIndex ==
  0..(Len(fallbacks) - 1)

SanInit ==
  /\ UiInit
  /\ HelpersIdle
  /\ ad \in Adapters
  /\ message \in {<<"h","e","l","l","o">>, <<"H","e","l","l","o"," ">>, <<"a","n","s","w","e","r",":"," ","t","e","l","l"," ","m","e"," ","a","b","o","u","t"," ","c","a","t","s">>, <<"t","e","l","l"," ","m","e"," ","a","b","o","u","t"," ","q","u","a","n","t","u","m"," ","c","o","m","p","u","t","i","n","g">>, <<"h","o","w"," ","a","r","e"," ","y","o","u">>, <<>>}
  /\ response \in RawsFor(message)
  /\ http = NoHttp
  /\ result = <<>>
  /\ settled = "pending"
  /\ pc = "ready"

Sanitize ==
  /\ pc = "ready"
  /\ \E rnd \in RandomIndex :
       result' = cleanAndValidateResponse(ad, response, message, rnd)
  /\ pc' = "done"
  /\ settled' = "resolved"
  /\ UNCHANGED <<ad, message, response, http>>
  /\ UNCHANGED uvars
  /\ UNCHANGED hvars

SanNext ==
  Sanitize

SanSpec ==
  SanInit /\ [][SanNext]_vars

(***************************************************************************)
(* AdapterSpec: one sendMessage call against every outcome of the fetch    *)
(***************************************************************************)
\* texts a 2xx payload can carry for a message: an answer, an echo of the
\* cleaned input, a labelled answer, blank text and the empty string
PayloadTexts(msg) ==
  {AnswerText, cleanInputMessage(msg), <<"R","e","s","p","o","n","s","e",":"," ">> \o AnswerText, <<" "," ","\n">>, <<>>}

AdapterInit ==
  /\ UiInit
  /\ HelpersIdle
  /\ ad \in Adapters
  /\ message = <<>>
  /\ response = <<>>
  /\ http = NoHttp
  /\ result = <<>>
  /\ settled = "pending"
  /\ pc = "ready"

\* the caller invokes sendMessage(message); the request is on the wire
SendMessage ==
  /\ pc = "ready"
  /\ message' \in {<<"h","e","l","l","o">>, <<"P","r","e","v","i","o","u","s"," ","c","o","n","v","e","r","s","a","t","i","o","n",":","\n","u","s","e","r",":"," ","h","i","\n","a","s","s","i","s","t","a","n","t",":"," ","w","e","l","c","o","m","e"," ","b","a","c","k","\n","\n","C","u","r","r","e","n","t"," ","u","s","e","r"," ","m","e","s","s","a","g","e",":"," ","h","o","w"," ","a","r","e"," ","y","o","u">>, <<"[","I","m","a","g","e"," ","u","p","l","o","a","d","e","d",":"," ","a",".","p","n","g","]"," ","w","h","a","t"," ","i","s"," ","t","h","i","s">>}
  /\ pc' = "fetching"
  /\ UNCHANGED <<ad, response, http, result, settled>>
  /\ UNCHANGED uvars
  /\ UNCHANGED hvars

Settle(h) ==
  /\ pc = "fetching"
  /\ http' = h
  /\ \E rnd \in RandomIndex :
       LET r == sendMessage(ad, message, h, rnd)
       IN  /\ result' = r.value
           /\ settled' = r.settled
  /\ response' = IF h.kind = "text" THEN h.text ELSE <<>>
  /\ pc' = "done"
  /\ UNCHANGED <<ad, message>>
  /\ UNCHANGED uvars
  /\ UNCHANGED hvars

\* fetch rejects (no connection, DNS failure, CORS)
FetchRejects ==
  \E e \in {ErrFailedToFetch, <<"N","e","t","w","o","r","k","E","r","r","o","r"," ","w","h","e","n"," ","a","t","t","e","m","p","t","i","n","g"," ","t","o"," ","f","e","t","c","h"," ","r","e","s","o","u","r","c","e",".">>, <<"L","o","a","d"," ","f","a","i","l","e","d">>} : Settle([kind |-> "reject", code |-> <<>>, text |-> e])

\* the endpoint answers with a non-2xx status
FetchNotOk ==
  \E c \in {<<"4","0","0">>, <<"4","2","9">>, <<"5","0","0">>}, b \in {<<"I","n","t","e","r","n","a","l"," ","S","e","r","v","e","r"," ","E","r","r","o","r">>, <<"A","P","I"," ","k","e","y"," ","n","o","t"," ","v","a","l","i","d">>, <<"q","u","o","t","a"," ","e","x","c","e","e","d","e","d">>, <<"r","a","t","e"," ","l","i","m","i","t"," ","r","e","a","c","h","e","d">>, <<>>} :
    Settle([kind |-> "status", code |-> c, text |-> b])

\* the endpoint answers 2xx with a payload that carries no text
FetchOkNoText ==
  \E k \in {"badjson", "nocandidates", "emptycandidates", "noparts"} :
    Settle([kind |-> k, code |-> <<>>, text |-> <<>>])

\* the endpoint answers 2xx with a payload that carries text
FetchOkText ==
  \E t \in PayloadTexts(message) :
    Settle([kind |-> "text", code |-> <<>>, text |-> t])

AdapterNext ==
  \/ SendMessage
  \/ FetchRejects
  \/ FetchNotOk
  \/ FetchOkNoText
  \/ FetchOkText

AdapterSpec ==
  AdapterInit /\ [][AdapterNext]_vars

(***************************************************************************)
(* ContextSpec: buildConversationContext applied to bounded histories      *)
(***************************************************************************)
\* the window of slice(-6)
ContextWindow ==
  6

\* longest displayed list of a ContextSpec behaviour
MaxHistory ==
  7

\* the predicate of messages.filter(...)
contextFilter(msg) ==
  /\ Len(msg.content) > 0
  /\ msg.session_id # Welcome
  /\ ~includes(toLowerCase(msg.content), <<"w","h","a","t"," ","c","a","n"," ","i"," ","h","e","l","p">>)
  /\ ~includes(toLowerCase(msg.content), <<"h","o","w"," ","c","a","n"," ","i"," ","h","e","l","p">>)
  /\ Len(trim(msg.content)) > 0

\* Array.prototype.slice(-n)
sliceLast(s, n) ==
  SubSeq(s, IF Len(s) > n THEN Len(s) - n + 1 ELSE 1, Len(s))

conversationMessages(msgs) ==
  sliceLast(SelectSeq(msgs, contextFilter), ContextWindow)

contextTurn(msg) ==
  [role |-> IF msg.sender = "user" THEN "user" ELSE "assistant",
   content |-> msg.content]

buildConversationContext(msgs) ==
  [i \in 1..Len(conversationMessages(msgs)) |-> contextTurn(conversationMessages(msgs)[i])]

\* the i-th displayed message, of kind k; the digit makes every text distinct
historyMessage(k, i) ==
  CASE k = "user" ->
         [session_id |-> FreshSession(1), sender |-> "user",
          content |-> <<"h","i"," ",<<"1","2","3","4","5","6","7","8","9">>[i]>>]
    [] k = "ai" ->
         [session_id |-> FreshSession(1), sender |-> "ai",
          content |-> <<"o","k"," ",<<"1","2","3","4","5","6","7","8","9">>[i]>>]
    [] k = "welcome" ->
         [session_id |-> Welcome, sender |-> "ai", content |-> <<"W","h","a","t"," ","c","a","n"," ","I"," ","h","e","l","p"," ","w","i","t","h","?">>]
    [] k = "blank" ->
         [session_id |-> FreshSession(1), sender |-> "user", content |-> <<" "," ">>]
    [] k = "aiHelp" ->
         [session_id |-> FreshSession(1), sender |-> "ai",
          content |-> <<"S","u","r","e","."," ","H","o","w"," ","c","a","n"," ","I"," ","h","e","l","p","?"," ",<<"1","2","3","4","5","6","7","8","9">>[i]>>]

ContextInit ==
  /\ \E n \in 0..MaxHistory :
       \E ks \in [1..n -> {"user", "ai", "welcome", "blank", "aiHelp"}] :
         messages = [i \in 1..n |-> historyMessage(ks[i], i)]
  /\ currentSessionId = FreshSession(1)
  /\ isLoading = FALSE
  /\ isTyping = FALSE
  /\ isLoadingHistory = FALSE
  /\ isFirstMessage = FALSE
  /\ send = IdleSend
  /\ sendCount = 0
  /\ userActions = 0
  /\ aiSaves = {}
  /\ db = InitialRows
  /\ loads = EmptyBag
  /\ deletes = {}
  /\ sessions = {}
  /\ sessionsPending = FALSE
  /\ AdapterIdle
  /\ HelpersIdle

\* handleSendMessage calls buildConversationContext() on the displayed list
BuildConversationContext ==
  /\ pc = "ready"
  /\ result' = buildConversationContext(messages)
  /\ pc' = "done"
  /\ UNCHANGED <<ad, message, response, http, settled>>
  /\ UNCHANGED uvars
  /\ UNCHANGED hvars

ContextNext ==
  BuildConversationContext

ContextSpec ==
  ContextInit /\ [][ContextNext]_vars

(***************************************************************************)
(* TitleSpec: generateChatTitle applied to bounded first messages          *)
(***************************************************************************)
\* slice(0, 4)
TitleWords ==
  4

\* the length above which '...' is appended
TitleMaxLen ==
  30

Ellipsis ==
  <<".",".",".">>

NewChatTitle ==
  <<"N","e","w"," ","C","h","a","t">>

\* String.prototype.split(c) for a one-character separator
RECURSIVE split(_, _)
split(s, c) ==
  IF \E i \in 1..Len(s) : s[i] = c
  THEN <<SubSeq(s, 1, MinOf({i \in 1..Len(s) : s[i] = c}) - 1)>>
         \o split(SubSeq(s, MinOf({i \in 1..Len(s) : s[i] = c}) + 1, Len(s)), c)
  ELSE <<s>>

\* Array.prototype.slice(0, n)
sliceFirst(s, n) ==
  SubSeq(s, 1, IF Len(s) > n THEN n ELSE Len(s))

\* Array.prototype.join(sep)
RECURSIVE join(_, _)
join(parts, sep) ==
  IF Len(parts) = 0 THEN <<>>
  ELSE IF Len(parts) = 1 THEN parts[1]
  ELSE parts[1] \o sep \o join(Tail(parts), sep)

\* firstMessage.replace(/^\[.*?\]\s*/, ''): a leading bracketed file
\* indicator and the white space after it
stripFileIndicator(s) ==
  LET close == {i \in 2..Len(s) : s[i] = "]" /\ \A j \in 1..i : s[j] # "\n"}
  IN  IF Len(s) > 0 /\ s[1] = "[" /\ close # {}
      THEN LET rest == SubSeq(s, MinOf(close) + 1, Len(s))
           IN  dropFirst(rest, wsRun(rest, 1))
      ELSE s

\* words.join(' ') with '...' appended when the measured text is long
titleOf(text, measured) ==
  join(sliceFirst(split(text, " "), TitleWords), <<" ">>)
    \o (IF Len(measured) > TitleMaxLen THEN Ellipsis ELSE <<>>)

generateChatTitle(rev, firstMessage) ==
  IF rev = "ChatSidebar"
  THEN IF titleOf(trim(firstMessage), firstMessage) = <<>>
       THEN NewChatTitle
       ELSE titleOf(trim(firstMessage), firstMessage)
  ELSE IF Len(trim(firstMessage)) = 0 THEN NewChatTitle
       ELSE IF Len(trim(stripFileIndicator(firstMessage))) = 0 THEN NewChatTitle
       ELSE LET cleanMessage == trim(stripFileIndicator(firstMessage))
            IN  IF titleOf(cleanMessage, cleanMessage) = <<>> THEN NewChatTitle
                ELSE titleOf(cleanMessage, cleanMessage)

\* most words of a generated first message
MaxWords ==
  5

TitleInit ==
  /\ UiInit
  /\ revision \in {"ChatSidebar", "part_003"}
  /\ sends = {}
  /\ clock = 0
  /\ sessionLoads = {}
  /\ MediaIdle
  /\ ad = "sarvam"
  /\ message \in {lead \o join([i \in 1..n |-> ws[i]], sep) : lead \in {<<>>, <<" ">>}, sep \in {<<" ">>, <<" "," ">>}, n \in 1..MaxWords, ws \in [1..MaxWords -> {<<"m","e">>, <<"a","p","p","l","i","c","a","t","i","o","n","s">>}]} \cup {<<>>, <<" "," ">>, [i \in 1..(TitleMaxLen + 1) |-> " "], <<"[","I","m","a","g","e"," ","u","p","l","o","a","d","e","d",":"," ","a",".","p","n","g","]"," ","w","h","a","t"," ","i","s"," ","t","h","i","s">>, <<"T","e","l","l"," ","m","e"," ","a","b","o","u","t"," ","q","u","a","n","t","u","m"," ","c","o","m","p","u","t","i","n","g"," ","a","n","d"," ","i","t","s"," ","a","p","p","l","i","c","a","t","i","o","n","s">>}
  /\ response = <<>>
  /\ http = NoHttp
  /\ result = <<>>
  /\ settled = "pending"
  /\ pc = "ready"

GenerateChatTitle ==
  /\ pc = "ready"
  /\ result' = generateChatTitle(revision, message)
  /\ pc' = "done"
  /\ UNCHANGED <<ad, message, response, http, settled>>
  /\ UNCHANGED uvars
  /\ UNCHANGED hvars

TitleNext ==
  GenerateChatTitle

TitleSpec ==
  TitleInit /\ [][TitleNext]_vars

(***************************************************************************)
(* SidebarSpec: the session list derived from the messages table           *)
(***************************************************************************)
\* message saves of a SidebarSpec behaviour
MaxSaves ==
  3

\* a loadChatSessions call whose query has not been evaluated yet
newLoad(n) ==
  [n |-> n, read |-> FALSE, rows |-> <<>>]

\* content of the k-th saved message
savedContent(sender, k) ==
  (IF sender = "user" THEN <<"a","s","k"," ">> ELSE <<"r","e","p","l","y"," ">>) \o <<<<"1","2","3","4","5","6","7","8","9">>[k]>>

\* the insert of saveMessageToDatabase; created_at defaults to the time of
\* the insert
insertStamped(rows, sessionId, sender, content, createdAt) ==
  Append(rows,
    [id |-> <<"row", createdAt>>,
     session_id |-> IF sessionId \in {TempSession, Welcome} THEN NULL ELSE sessionId,
     sender |-> sender,
     content |-> content,
     created_at |-> createdAt])

\* the rows the query of loadChatSessions returns: those with a session id
\* other than 'welcome', newest first
RECURSIVE messagesData(_)
messagesData(rows) ==
  IF rows = <<>> THEN <<>>
  ELSE IF rows[Len(rows)].session_id \in {NULL, Welcome}
    THEN messagesData(SubSeq(rows, 1, Len(rows) - 1))
    ELSE <<rows[Len(rows)]>> \o messagesData(SubSeq(rows, 1, Len(rows) - 1))

\* sessionMap.set(sessionId, {...}) for the first row met of a session
newSession(msg) ==
  [id |-> msg.session_id,
   title |-> IF msg.sender = "user" /\ Len(msg.content) > 0
             THEN generateChatTitle("part_003", msg.content)
             ELSE NewChatTitle,
   created_at |-> msg.created_at,
   updated_at |-> msg.created_at,
   message_count |-> 1]

\* the else branch of the forEach callback: a further row of a session
updatedSession(session, msg) ==
  [session EXCEPT
     !.message_count = @ + 1,
     !.title = IF @ = NewChatTitle /\ msg.sender = "user" /\ Len(msg.content) > 0
               THEN generateChatTitle("part_003", msg.content)
               ELSE @,
     !.updated_at = IF msg.created_at > @ THEN msg.created_at ELSE @]

\* the forEach callback applied to one row; map holds the entries of
\* sessionMap in insertion order
addMessage(map, msg) ==
  IF \E i \in 1..Len(map) : map[i].id = msg.session_id
  THEN [i \in 1..Len(map) |->
          IF map[i].id = msg.session_id THEN updatedSession(map[i], msg) ELSE map[i]]
  ELSE Append(map, newSession(msg))

\* sessionMap after the first n rows of data
RECURSIVE sessionMap(_, _)
sessionMap(data, n) ==
  IF n = 0 THEN <<>> ELSE addMessage(sessionMap(data, n - 1), data[n])

\* Array.from(sessionMap.values()).sort(...): newest session first
formattedSessions(rows) ==
  SortSeq(sessionMap(messagesData(rows), Len(messagesData(rows))),
          LAMBDA a, b : a.updated_at > b.updated_at)

SidebarInit ==
  /\ currentSessionId = NULL
  /\ messages = <<>>
  /\ isLoading = FALSE
  /\ isTyping = FALSE
  /\ isLoadingHistory = FALSE
  /\ isFirstMessage = TRUE
  /\ send = IdleSend
  /\ sendCount = 0
  /\ userActions = 0
  /\ aiSaves = {}
  /\ db = <<>>
  /\ loads = EmptyBag
  /\ deletes = {}
  /\ sessions = <<>>
  /\ sessionsPending = FALSE
  /\ AdapterIdle
  /\ revision = "part_003"
  /\ sends = {}
  /\ clock = 0
  /\ sessionLoads = {newLoad(0)}
  /\ MediaIdle

\* saveMessageToDatabase of the chat view inserts a row; the realtime
\* subscription of the sidebar reports the change and the callback calls
\* loadChatSessions
MessageSaved ==
  /\ clock < MaxSaves
  /\ \E sessionId \in {FreshSession(1), FreshSession(2), TempSession},
        sender \in {"user", "ai"} :
       db' = insertStamped(db, sessionId, sender, savedContent(sender, clock + 1), clock + 1)
  /\ clock' = clock + 1
  /\ sessionLoads' = sessionLoads \cup {newLoad(clock + 1)}
  /\ UNCHANGED <<currentSessionId, messages, isLoading, isTyping, isLoadingHistory,
                 isFirstMessage, send, sendCount, userActions, aiSaves, loads,
                 deletes, sessions, sessionsPending>>
  /\ UNCHANGED <<avars, revision, sends, mvars>>

\* the query of a loadChatSessions call is evaluated against the table
LoadChatSessionsReads ==
  /\ \E l \in sessionLoads :
       /\ ~l.read
       /\ sessionLoads' = (sessionLoads \ {l}) \cup {[l EXCEPT !.read = TRUE, !.rows = db]}
  /\ UNCHANGED <<uvars, avars, revision, sends, clock, mvars>>

\* the query result arrives: setSessions(formattedSessions)
LoadChatSessionsOk ==
  /\ \E l \in sessionLoads :
       /\ l.read
       /\ sessionLoads' = sessionLoads \ {l}
       /\ sessions' = formattedSessions(l.rows)
  /\ UNCHANGED <<currentSessionId, messages, isLoading, isTyping, isLoadingHistory,
                 isFirstMessage, send, sendCount, userActions, aiSaves, db, loads,
                 deletes, sessionsPending>>
  /\ UNCHANGED <<avars, revision, sends, clock, mvars>>

\* the query answers with an error, or throws: setSessions([])
LoadChatSessionsError ==
  /\ \E l \in sessionLoads :
       /\ sessionLoads' = sessionLoads \ {l}
       /\ sessions' = <<>>
  /\ UNCHANGED <<currentSessionId, messages, isLoading, isTyping, isLoadingHistory,
                 isFirstMessage, send, sendCount, userActions, aiSaves, db, loads,
                 deletes, sessionsPending>>
  /\ UNCHANGED <<avars, revision, sends, clock, mvars>>

SidebarNext ==
  \/ MessageSaved
  \/ LoadChatSessionsReads
  \/ LoadChatSessionsOk
  \/ LoadChatSessionsError

SidebarSpec ==
  SidebarInit /\ [][SidebarNext]_vars

(***************************************************************************)
(* ImageSpec: generateImage of the chat view and of the Gemini adapter     *)
(***************************************************************************)
\* values generateImage returns: a URL by its host and parameters, null or
\* undefined
imageUrl(host, query, random, blur) ==
  [kind |-> "url", host |-> host, query |-> query, random |-> random, blur |-> blur]

\* `https://picsum.photos/800/600?random=${...}`, with or without &blur=1
picsum(rnd, blur) ==
  imageUrl("picsum.photos", <<>>, rnd, blur)

\* `https://api.unsplash.com/photos/random?query=...&client_id=demo&w=800&h=600`
unsplash(query) ==
  imageUrl("api.unsplash.com", query, 0, FALSE)

\* GeminiAI.generateImage: the URL is chosen from the words of the prompt
themedImageUrl(prompt, rnd) ==
  LET p == toLowerCase(prompt)
  IN  IF includes(p, <<"c","a","t">>) \/ includes(p, <<"k","i","t","t","e","n">>) THEN unsplash(<<"c","a","t">>)
      ELSE IF includes(p, <<"d","o","g">>) \/ includes(p, <<"p","u","p","p","y">>) THEN unsplash(<<"d","o","g">>)
      ELSE IF includes(p, <<"n","a","t","u","r","e">>) \/ includes(p, <<"l","a","n","d","s","c","a","p","e">>) THEN unsplash(<<"n","a","t","u","r","e">>)
      ELSE IF includes(p, <<"c","i","t","y">>) \/ includes(p, <<"u","r","b","a","n">>) THEN unsplash(<<"c","i","t","y">>)
      ELSE IF includes(p, <<"f","o","o","d">>) THEN unsplash(<<"f","o","o","d">>)
      ELSE picsum(rnd, FALSE)

\* generateImage of the chat view: any failure of the endpoint is caught and
\* answered with null; an entry without url is returned as it is
chatViewGenerateImage(h) ==
  CASE h.kind = "image" -> (imageUrl("endpoint", <<>>, 0, FALSE))
    [] h.kind \in {"noimage", "badbase64"} -> [kind |-> "undefined", host |-> "", query |-> <<>>, random |-> 0, blur |-> FALSE]
    [] OTHER -> [kind |-> "null", host |-> "", query |-> <<>>, random |-> 0, blur |-> FALSE]

\* generateImage of part_000: inline image data becomes a blob URL, a
\* response without it falls through to the blurred placeholder, and an
\* exception (fetch, json(), atob) is answered with the plain placeholder
part000GenerateImage(h, rnd) ==
  CASE h.kind = "image" -> (imageUrl("blob", <<>>, 0, FALSE))
    [] h.kind \in {"status", "empty", "emptylist", "noimage"} -> picsum(rnd, TRUE)
    [] OTHER -> picsum(rnd, FALSE)

generateImage(rev, prompt, h, rnd) ==
  CASE rev = "EnhancedChatInterface" -> chatViewGenerateImage(h)
    [] rev = "part_000" -> part000GenerateImage(h, rnd)
    [] OTHER -> themedImageUrl(prompt, rnd)

ImageInit ==
  /\ UiInit
  /\ revision \in {"EnhancedChatInterface", "GeminiAI", "part_000"}
  /\ sends = {}
  /\ clock = 0
  /\ sessionLoads = {}
  /\ MediaIdle
  /\ AdapterIdle

\* generateImage(prompt) up to its first await
GenerateImageCalled ==
  /\ pc = "ready"
  /\ message' \in {<<"a"," ","C","a","t">>, <<"p","u","p","p","y"," ","i","n"," ","a"," ","c","i","t","y">>, <<"l","a","n","d","s","c","a","p","e">>, <<"u","r","b","a","n"," ","f","o","o","d">>, <<"F","o","o","d">>, <<"s","u","n","s","e","t">>}
  /\ isGeneratingImage' = (revision = "EnhancedChatInterface")
  /\ pc' = IF revision = "GeminiAI" THEN "waiting" ELSE "fetching"
  /\ UNCHANGED <<ad, response, http, result, settled>>
  /\ UNCHANGED uvars
  /\ UNCHANGED <<revision, sends, clock, sessionLoads, selectedFiles, uploads, uploading,
                 objectUrls, sentFiles, audioUrl, mounted, fileCount>>

\* the fetch of generateImage settles with h and the function returns
ImageSettle(h) ==
  /\ pc = "fetching"
  /\ http' = h
  /\ \E rnd \in {0, 9999} : result' = generateImage(revision, message, h, rnd)
  /\ settled' = "resolved"
  /\ isGeneratingImage' = FALSE
  /\ pc' = "done"
  /\ UNCHANGED <<ad, message, response>>
  /\ UNCHANGED uvars
  /\ UNCHANGED <<revision, sends, clock, sessionLoads, selectedFiles, uploads, uploading,
                 objectUrls, sentFiles, audioUrl, mounted, fileCount>>

ImageFetchRejects ==
  \E e \in {ErrFailedToFetch, <<"N","e","t","w","o","r","k","E","r","r","o","r"," ","w","h","e","n"," ","a","t","t","e","m","p","t","i","n","g"," ","t","o"," ","f","e","t","c","h"," ","r","e","s","o","u","r","c","e",".">>, <<"L","o","a","d"," ","f","a","i","l","e","d">>} : ImageSettle([kind |-> "reject", code |-> <<>>, text |-> e])

ImageFetchNotOk ==
  \E c \in {<<"4","0","0">>, <<"4","2","9">>, <<"5","0","0">>} : ImageSettle([kind |-> "status", code |-> c, text |-> <<>>])

ImageFetchOkNoImage ==
  \E k \in {"badjson", "empty", "emptylist", "noimage", "badbase64"} : ImageSettle([kind |-> k, code |-> <<>>, text |-> <<>>])

ImageFetchOkImage ==
  ImageSettle([kind |-> "image", code |-> <<>>, text |-> <<>>])

\* GeminiAI.generateImage calls no endpoint: it returns after its timer
ImageTimerElapses ==
  /\ pc = "waiting"
  /\ \E rnd \in {0, 9999} : result' = generateImage(revision, message, NoHttp, rnd)
  /\ settled' = "resolved"
  /\ pc' = "done"
  /\ UNCHANGED <<ad, message, response, http>>
  /\ UNCHANGED uvars
  /\ UNCHANGED hvars

ImageNext ==
  \/ GenerateImageCalled
  \/ ImageFetchRejects
  \/ ImageFetchNotOk
  \/ ImageFetchOkNoImage
  \/ ImageFetchOkImage
  \/ ImageTimerElapses

ImageSpec ==
  ImageInit /\ [][ImageNext]_vars

(***************************************************************************)
(* MediaSpec: pending attachments, recordings and their object URLs        *)
(***************************************************************************)
\* files accepted by a drop or produced by a recording, per behaviour
MaxFiles ==
  3

\* the n-th URL made by URL.createObjectURL
objectUrl(n) ==
  <<"blob", n>>

\* supabase.storage.from('chat-media').getPublicUrl(fileName)
publicUrl(id) ==
  <<"public", id>>

\* the batches of at most n accepted files, by the types of the files
Batches(n) ==
  UNION {[1..k -> {"image", "document"}] : k \in 1..n}

urlsOf(file) ==
  {file.preview, file.url} \ {NoUrl}

MediaInit ==
  /\ UiInit
  /\ AdapterIdle
  /\ revision \in {"MediaUpload", "part_001"}
  /\ sends = {}
  /\ clock = 0
  /\ sessionLoads = {}
  /\ MediaIdle

\* onDrop(acceptedFiles) up to the uploads: every callback of the map runs to
\* its await of uploadToSupabase; in MediaUpload.tsx an image gets its preview
\* URL before the upload, in part_001 after it
OnDropStarts ==
  /\ mounted
  /\ fileCount < MaxFiles
  /\ \E batch \in Batches(MaxFiles - fileCount) :
       LET base == Cardinality(objectUrls)
           imagesUpTo(i) == Cardinality({j \in 1..i : batch[j] = "image"})
           files == [i \in 1..Len(batch) |->
                       [id |-> fileCount + i,
                        type |-> batch[i],
                        preview |-> IF batch[i] = "image" /\ revision = "MediaUpload"
                                    THEN objectUrl(base + imagesUpTo(i)) ELSE NoUrl,
                        url |-> NoUrl]]
       IN  /\ objectUrls' = objectUrls \cup
                              ({files[i].preview : i \in 1..Len(batch)} \ {NoUrl})
           /\ uploads' = uploads \cup {[files |-> files, captured |-> selectedFiles]}
           /\ fileCount' = fileCount + Len(batch)
  /\ uploading' = TRUE
  /\ UNCHANGED <<selectedFiles, sentFiles, audioUrl, mounted, isGeneratingImage>>
  /\ UNCHANGED <<revision, sends, clock, sessionLoads>>
  /\ UNCHANGED <<uvars, avars>>

\* the files of batch u of MediaUpload.tsx once every upload has settled
\* (oks[i]: the upload of file i succeeded): uploadToSupabase answers a
\* failure with a local object URL
uploadedFiles(u, oks, base) ==
  [i \in 1..Len(u.files) |->
     [u.files[i] EXCEPT !.url =
        IF oks[i] THEN publicUrl(u.files[i].id)
        ELSE objectUrl(base + Cardinality({j \in 1..i : ~oks[j]}))]]

\* the files of batch u of part_001: uploadToSupabase throws on a failure,
\* and the callback of a file whose upload succeeded goes on to the preview
part001Files(u, oks, base) ==
  [i \in 1..Len(u.files) |->
     [u.files[i] EXCEPT
        !.url = IF oks[i] THEN publicUrl(u.files[i].id) ELSE NoUrl,
        !.preview = IF oks[i] /\ u.files[i].type = "image"
                    THEN objectUrl(base + Cardinality({j \in 1..i :
                                      oks[j] /\ u.files[j].type = "image"}))
                    ELSE NoUrl]]

\* every upload of the batch has settled. MediaUpload.tsx: Promise.all
\* resolves and onFilesSelected([...selectedFiles, ...mediaFiles]) is called
\* with the list captured by the callback. part_001: Promise.all rejects when
\* one upload failed and the catch block only shows a toast
OnDropDone ==
  /\ \E u \in uploads : \E oks \in [1..Len(u.files) -> BOOLEAN] :
       LET base == Cardinality(objectUrls)
           mediaFiles == IF revision = "MediaUpload" THEN uploadedFiles(u, oks, base)
                         ELSE part001Files(u, oks, base)
           rejected == revision = "part_001" /\ \E i \in 1..Len(u.files) : ~oks[i]
       IN  /\ objectUrls' = objectUrls \cup
                 (UNION {urlsOf(mediaFiles[i]) : i \in 1..Len(u.files)}
                    \ {publicUrl(u.files[i].id) : i \in 1..Len(u.files)})
           /\ selectedFiles' = IF mounted /\ ~rejected THEN u.captured \o mediaFiles
                               ELSE selectedFiles
           /\ uploads' = uploads \ {u}
  /\ uploading' = FALSE
  /\ UNCHANGED <<sentFiles, audioUrl, mounted, fileCount, isGeneratingImage>>
  /\ UNCHANGED <<revision, sends, clock, sessionLoads>>
  /\ UNCHANGED <<uvars, avars>>

\* mediaRecorder.onstop: the recorder keeps a URL of the recording for its
\* player and hands the blob to handleAudioRecorded, which makes a second URL
\* for the attachment
AudioRecorded ==
  /\ mounted
  /\ fileCount < MaxFiles
  /\ LET base == Cardinality(objectUrls)
     IN  /\ audioUrl' = objectUrl(base + 1)
         /\ selectedFiles' = Append(selectedFiles,
              [id |-> fileCount + 1, type |-> "audio", preview |-> NoUrl,
               url |-> objectUrl(base + 2)])
         /\ objectUrls' = objectUrls \cup {objectUrl(base + 1), objectUrl(base + 2)}
  /\ fileCount' = fileCount + 1
  /\ UNCHANGED <<uploads, uploading, sentFiles, mounted, isGeneratingImage>>
  /\ UNCHANGED <<revision, sends, clock, sessionLoads>>
  /\ UNCHANGED <<uvars, avars>>

\* onRemoveFile(id): setSelectedFiles(prev => prev.filter(f => f.id !== id))
RemoveFile ==
  /\ mounted
  /\ \E i \in 1..Len(selectedFiles) :
       LET keep(f) == f.id # selectedFiles[i].id
       IN  selectedFiles' = SelectSeq(selectedFiles, keep)
  /\ UNCHANGED <<uploads, uploading, objectUrls, sentFiles, audioUrl, mounted,
                 fileCount, isGeneratingImage>>
  /\ UNCHANGED <<revision, sends, clock, sessionLoads>>
  /\ UNCHANGED <<uvars, avars>>

\* handleSendMessage, as far as the attachments go: the pending files become
\* the mediaFiles of the displayed user message and the pending list is
\* cleared
SendSelectedFiles ==
  /\ mounted
  /\ selectedFiles # <<>>
  /\ ~isLoading
  /\ sentFiles' = sentFiles \cup {selectedFiles[i] : i \in 1..Len(selectedFiles)}
  /\ selectedFiles' = <<>>
  /\ UNCHANGED <<uploads, uploading, objectUrls, audioUrl, mounted, fileCount,
                 isGeneratingImage>>
  /\ UNCHANGED <<revision, sends, clock, sessionLoads>>
  /\ UNCHANGED <<uvars, avars>>

\* handleNewChat and handleSessionSelect, as far as the attachments go: the
\* displayed list and the pending list are cleared
ClearSelectedFiles ==
  /\ mounted
  /\ selectedFiles # <<>> \/ sentFiles # {}
  /\ selectedFiles' = <<>>
  /\ sentFiles' = {}
  /\ UNCHANGED <<uploads, uploading, objectUrls, audioUrl, mounted, fileCount,
                 isGeneratingImage>>
  /\ UNCHANGED <<revision, sends, clock, sessionLoads>>
  /\ UNCHANGED <<uvars, avars>>

\* the chat view is unmounted: its state is gone; no effect of the chat
\* view, of MediaUpload or of AudioRecorder has a cleanup function
Unmount ==
  /\ mounted
  /\ mounted' = FALSE
  /\ selectedFiles' = <<>>
  /\ sentFiles' = {}
  /\ audioUrl' = NoUrl
  /\ UNCHANGED <<uploads, uploading, objectUrls, fileCount, isGeneratingImage>>
  /\ UNCHANGED <<revision, sends, clock, sessionLoads>>
  /\ UNCHANGED <<uvars, avars>>

MediaNext ==
  \/ OnDropStarts
  \/ OnDropDone
  \/ AudioRecorded
  \/ RemoveFile
  \/ SendSelectedFiles
  \/ ClearSelectedFiles
  \/ Unmount

MediaSpec ==
  MediaInit /\ [][MediaNext]_vars

(***************************************************************************)
(* HistorySpec: selecting sessions and loading their history, with no      *)
(* send and no delete in between                                           *)
(***************************************************************************)
HistoryInit ==
  /\ currentSessionId = NULL
  /\ messages = <<>>
  /\ isLoading = FALSE
  /\ isTyping = FALSE
  /\ isLoadingHistory = TRUE
  /\ isFirstMessage = TRUE
  /\ send = IdleSend
  /\ sendCount = 0
  /\ userActions = 0
  /\ aiSaves = {}
  /\ db \in {InitialRows, (insertRow(InitialRows, <<"stored", 4>>, TempSession, "user", "media"))}
  /\ loads = SetToBag({NULL})
  /\ deletes = {}
  /\ sessions = {}
  /\ sessionsPending = FALSE
  /\ AdapterIdle
  /\ HelpersIdle

HistoryNext ==
  \/ LoadChatHistoryDone
  \/ LoadChatSessionsDone
  \/ HandleNewChat
  \/ HandleSessionSelect

HistorySpec ==
  HistoryInit /\ [][HistoryNext]_vars

(***************************************************************************)
(* SimilaritySpec: levenshteinDistance and calculateSimilarity applied to  *)
(* bounded pairs of strings                                                *)
(***************************************************************************)
\* length of the strings over {"a", "b"} that are compared
MaxStringLen ==
  3

SimilarityInit ==
  /\ UiInit
  /\ HelpersIdle
  /\ ad \in Adapters
  /\ \/ /\ message \in UNION {[1..k -> {"a", "b"}] : k \in 0..MaxStringLen}
        /\ response \in UNION {[1..k -> {"a", "b"}] : k \in 0..MaxStringLen}
     \/ /\ message = <<"k","i","t","t","e","n">>
        /\ response = <<"s","i","t","t","i","n","g">>
     \/ /\ message = <<"s","i","t","t","i","n","g">>
        /\ response = <<"k","i","t","t","e","n">>
  /\ http = NoHttp
  /\ result = <<>>
  /\ settled = "pending"
  /\ pc = "ready"

\* levenshteinDistance(message, response) and
\* calculateSimilarity(message, response) are evaluated
ComputeSimilarity ==
  /\ pc = "ready"
  /\ result' = [distance |-> levenshteinDistance(message, response),
                similarity |-> calculateSimilarity(message, response)]
  /\ pc' = "done"
  /\ UNCHANGED <<ad, message, response, http, settled>>
  /\ UNCHANGED uvars
  /\ UNCHANGED hvars

SimilarityNext ==
  ComputeSimilarity

SimilaritySpec ==
  SimilarityInit /\ [][SimilarityNext]_vars

(***************************************************************************)
(* FallbackSpec: generateContextualFallback applied to inputs with and     *)
(* without the keywords it tests                                           *)
(***************************************************************************)
FallbackInit ==
  /\ UiInit
  /\ HelpersIdle
  /\ ad \in Adapters
  /\ \/ \E k \in {<<"f","i","l","e">>, <<"U","p","l","o","a","d">>, <<"i","m","a","g","e">>,
                  <<"c","o","d","e">>, <<"P","r","o","g","r","a","m">>, <<"h","e","l","p">>,
                  <<"a","s","s","i","s","t">>, <<"E","x","p","l","a","i","n">>,
                  <<"w","h","a","t"," ","i","s">>, <<"h","o","w">>,
                  <<"p","i","c","t","u","r","e">>, <<"D","r","a","w">>} :
          message \in {k, <<"P","l","e","a","s","e"," ">> \o k \o <<" ","n","o","w">>}
     \/ message \in {<<"h","e","l","l","o">>, <<>>}
  /\ response = <<>>
  /\ http = NoHttp
  /\ result = <<>>
  /\ settled = "pending"
  /\ pc = "ready"

GenerateFallback ==
  /\ pc = "ready"
  /\ \E rnd \in RandomIndex :
       result' = generateContextualFallback(ad, message, rnd)
  /\ pc' = "done"
  /\ settled' = "resolved"
  /\ UNCHANGED <<ad, message, response, http>>
  /\ UNCHANGED uvars
  /\ UNCHANGED hvars

FallbackNext ==
  GenerateFallback

FallbackSpec ==
  FallbackInit /\ [][FallbackNext]_vars

(***************************************************************************)
(* EchoSpec: the text branch of handleSendMessage from the prompt to the   *)
(* displayed reply, when the model returns the user's message              *)
(***************************************************************************)
\* conversationContext.map(msg => `${msg.role}: ${msg.content}`).join('\n'),
\* from turn i on
RECURSIVE contextStr(_, _)
contextStr(ctx, i) ==
  IF i > Len(ctx) THEN <<>>
  ELSE (IF ctx[i].role = "user" THEN <<"u","s","e","r">>
        ELSE <<"a","s","s","i","s","t","a","n","t">>)
         \o <<":"," ">> \o ctx[i].content
         \o (IF i < Len(ctx) THEN <<"\n">> ELSE <<>>) \o contextStr(ctx, i + 1)

\* the prompt handed to sarvamAI.sendMessage. buildConversationContext reads
\* the list of the render of the handler, without the message being sent;
\* on the histories of EchoInit the filter and the windows of part_002
\* (lines 132-144, slice(-6) at 262) select the same turns
contextualPrompt(msgs, messageContent) ==
  IF Len(buildConversationContext(msgs)) = 0 THEN messageContent
  ELSE <<"P","r","e","v","i","o","u","s"," ","c","o","n","v","e","r","s","a","t","i","o","n",":","\n">>
         \o contextStr(buildConversationContext(msgs), 1)
         \o <<"\n","\n","C","u","r","r","e","n","t"," ","u","s","e","r"," ","m","e","s","s","a","g","e",":"," ">>
         \o messageContent

\* the content of the AI message the handler displays for the value
\* sendMessage resolved with
displayedReply(rev, aiResponse, messageContent) ==
  IF rev = "part_002"
  THEN IF Len(aiResponse) = 0 \/ Len(trim(aiResponse)) = 0
       THEN <<"I","'","m"," ","h","a","v","i","n","g"," ","t","r","o","u","b","l","e"," ","p","r","o","c","e","s","s","i","n","g"," ","y","o","u","r"," ","r","e","q","u","e","s","t"," ","r","i","g","h","t"," ","n","o","w","."," ","C","o","u","l","d"," ","y","o","u"," ","p","l","e","a","s","e"," ","t","r","y"," ","a","g","a","i","n","?">>
       ELSE aiResponse
  ELSE LET c0 == IF Len(aiResponse) = 0
                 THEN <<"I"," ","a","p","o","l","o","g","i","z","e",","," ","b","u","t"," ","I"," ","c","o","u","l","d","n","'","t"," ","g","e","n","e","r","a","t","e"," ","a"," ","r","e","s","p","o","n","s","e","."," ","P","l","e","a","s","e"," ","t","r","y"," ","a","g","a","i","n",".">>
                 ELSE aiResponse
           c1 == IF /\ includes(toLowerCase(c0), toLowerCase(messageContent))
                    /\ Len(messageContent) > 10
                    /\ splitHasSecond(c0, messageContent)
                    /\ Len(trim(splitSecond(c0, messageContent))) > 0
                 THEN trim(splitSecond(c0, messageContent))
                 ELSE c0
       IN  IF trim(toLowerCase(c1)) = trim(toLowerCase(messageContent))
           THEN <<"I"," ","u","n","d","e","r","s","t","a","n","d"," ","y","o","u","r"," ","m","e","s","s","a","g","e","."," ","C","o","u","l","d"," ","y","o","u"," ","p","l","e","a","s","e"," ","p","r","o","v","i","d","e"," ","m","o","r","e"," ","d","e","t","a","i","l","s"," ","a","b","o","u","t"," ","w","h","a","t"," ","y","o","u","'","d"," ","l","i","k","e"," ","m","e"," ","t","o"," ","h","e","l","p"," ","y","o","u"," ","w","i","t","h","?">>
           ELSE c1

EchoInit ==
  /\ UiInit
  /\ revision \in {"EnhancedChatInterface", "part_002"}
  /\ sends = {}
  /\ clock = 0
  /\ sessionLoads = {}
  /\ MediaIdle
  /\ ad = "sarvam"
  /\ message \in {<<"t","e","l","l"," ","m","e"," ","a","b","o","u","t"," ","c","a","t","s">>,
                  <<"T","e","l","l"," ","m","e"," ","m","o","r","e">>,
                  <<"h","e","l","l","o">>}
  /\ response \in {message, toLowerCase(message), <<" ">> \o message \o <<" ","\n">>}
  /\ http = NoHttp
  /\ result = <<>>
  /\ settled = "pending"
  /\ pc = "ready"

\* an earlier turn of the conversation is on display: the user's message
\* and the reply to it
EarlierTurn ==
  /\ pc = "ready"
  /\ Len(messages) < 4
  /\ messages' = messages \o <<historyMessage("user", Len(messages) + 1),
                               historyMessage("ai", Len(messages) + 2)>>
  /\ UNCHANGED <<currentSessionId, isLoading, isTyping, isLoadingHistory, isFirstMessage,
                 send, sendCount, userActions, aiSaves, db, loads, deletes, sessions,
                 sessionsPending>>
  /\ UNCHANGED avars
  /\ UNCHANGED hvars

\* handleSendMessage with the text `message`, from the prompt to the content
\* of the displayed AI message; the endpoint answers with the text `response`
SendEchoed ==
  /\ pc = "ready"
  /\ http' = [kind |-> "text", code |-> <<>>, text |-> response]
  /\ \E rnd \in RandomIndex :
       result' = displayedReply(revision,
                   sendMessage(ad, contextualPrompt(messages, message), http', rnd).value,
                   message)
  /\ settled' = "resolved"
  /\ pc' = "done"
  /\ UNCHANGED <<ad, message, response>>
  /\ UNCHANGED uvars
  /\ UNCHANGED hvars

EchoNext ==
  \/ EarlierTurn
  \/ SendEchoed

EchoSpec ==
  EchoInit /\ [][EchoNext]_vars

(***************************************************************************)
(* LoadingSpec: sends, new chats and session selects of the chat view of   *)
(* part_002, whose handleNewChat resets the loading state                  *)
(***************************************************************************)
LoadingInit ==
  /\ currentSessionId = NULL
  /\ messages = <<>>
  /\ isLoading = FALSE
  /\ isTyping = FALSE
  /\ isLoadingHistory = FALSE
  /\ isFirstMessage = TRUE
  /\ send = IdleSend
  /\ sendCount = 0
  /\ userActions = 0
  /\ aiSaves = {}
  /\ db = InitialRows
  /\ loads = EmptyBag
  /\ deletes = {}
  /\ sessions = sessionIdsOf(InitialRows)
  /\ sessionsPending = FALSE
  /\ AdapterIdle
  /\ revision = "part_002"
  /\ sends = {}
  /\ clock = 0
  /\ sessionLoads = {}
  /\ MediaIdle

\* handleSendMessage of part_002 up to its await of saveMessageToDatabase
Part002Send ==
  /\ ~isLoading
  /\ userActions < MaxUserActions
  /\ userActions' = userActions + 1
  /\ sendCount' = sendCount + 1
  /\ LET sessionId == IF currentSessionId # NULL THEN currentSessionId
                      ELSE FreshSession(sendCount + 1)
     IN  /\ currentSessionId' = sessionId
         /\ messages' = Append(messages,
              [id |-> <<"local", sendCount + 1>>, session_id |-> sessionId,
               sender |-> "user", content |-> "text"])
         /\ sends' = sends \cup {[n |-> sendCount + 1, sessionId |-> sessionId,
                                  pc |-> "saveUser"]}
  /\ isLoading' = TRUE
  /\ isTyping' = TRUE
  /\ UNCHANGED <<isLoadingHistory, isFirstMessage, send, aiSaves, db, loads, deletes,
                 sessions, sessionsPending>>
  /\ UNCHANGED avars
  /\ UNCHANGED <<revision, clock, sessionLoads, mvars>>

\* saveMessageToDatabase of the user message returns (inserted or failed)
\* and the handler calls sarvamAI.sendMessage
Part002SaveUserDone ==
  /\ \E x \in sends :
       /\ x.pc = "saveUser"
       /\ sends' = (sends \ {x}) \cup {[x EXCEPT !.pc = "awaitAI"]}
       /\ \E ok \in BOOLEAN :
            db' = IF ok THEN insertRow(db, <<"user", x.n>>, x.sessionId, "user", "text")
                  ELSE db
  /\ UNCHANGED <<currentSessionId, messages, isLoading, isTyping, isLoadingHistory,
                 isFirstMessage, send, sendCount, userActions, aiSaves, loads, deletes,
                 sessions, sessionsPending>>
  /\ UNCHANGED avars
  /\ UNCHANGED <<revision, clock, sessionLoads, mvars>>

\* sarvamAI.sendMessage resolves: the reply (or, for an empty one, the
\* fallback of the catch block) is displayed and its insert is started
Part002AiArrives ==
  /\ \E x \in sends :
       /\ x.pc = "awaitAI"
       /\ sends' = (sends \ {x}) \cup {[x EXCEPT !.pc = "saveAi"]}
       /\ messages' = Append(messages,
            [id |-> <<"local-ai", x.n>>, session_id |-> x.sessionId,
             sender |-> "ai", content |-> "reply"])
  /\ isTyping' = FALSE
  /\ UNCHANGED <<currentSessionId, isLoading, isLoadingHistory, isFirstMessage, send,
                 sendCount, userActions, aiSaves, db, loads, deletes, sessions,
                 sessionsPending>>
  /\ UNCHANGED avars
  /\ UNCHANGED <<revision, clock, sessionLoads, mvars>>

\* saveMessageToDatabase of the AI message returns and the finally block of
\* the handler runs
Part002SendReturns ==
  /\ \E x \in sends :
       /\ x.pc = "saveAi"
       /\ sends' = sends \ {x}
       /\ \E ok \in BOOLEAN :
            db' = IF ok THEN insertRow(db, <<"ai", x.n>>, x.sessionId, "ai", "reply")
                  ELSE db
  /\ isLoading' = FALSE
  /\ isTyping' = FALSE
  /\ UNCHANGED <<currentSessionId, messages, isLoadingHistory, isFirstMessage, send,
                 sendCount, userActions, aiSaves, loads, deletes, sessions,
                 sessionsPending>>
  /\ UNCHANGED avars
  /\ UNCHANGED <<revision, clock, sessionLoads, mvars>>

\* handleNewChat of part_002, also reached by handleSessionSelect(null)
Part002NewChat ==
  /\ currentSessionId' = NULL
  /\ messages' = <<welcomeMessage("welcome")>>
  /\ isLoading' = FALSE
  /\ isTyping' = FALSE
  /\ UNCHANGED <<isLoadingHistory, isFirstMessage, send, sendCount, userActions, aiSaves,
                 db, loads, deletes, sessions, sessionsPending>>
  /\ UNCHANGED avars
  /\ UNCHANGED hvars

\* handleSessionSelect(s) of part_002 for a session of the sidebar list: it
\* calls loadChatHistory(s) itself
Part002SessionSelect ==
  /\ userActions < MaxUserActions
  /\ userActions' = userActions + 1
  /\ \E s \in sessions :
       /\ currentSessionId' = s
       /\ loads' = loads (+) SetToBag({s})
  /\ messages' = <<>>
  /\ UNCHANGED <<isLoading, isTyping, isLoadingHistory, isFirstMessage, send, sendCount,
                 aiSaves, db, deletes, sessions, sessionsPending>>
  /\ UNCHANGED avars
  /\ UNCHANGED hvars

\* loadChatHistory(s) of part_002 returns: the rows replace the list, an
\* error leaves it as it is
Part002LoadDone ==
  /\ \E s \in BagToSet(loads) :
       /\ loads' = loads (-) SetToBag({s})
       /\ \E ok \in BOOLEAN :
            messages' = IF ok THEN formattedMessages(rowsOf(db, s)) ELSE messages
  /\ UNCHANGED <<currentSessionId, isLoading, isTyping, isLoadingHistory, isFirstMessage,
                 send, sendCount, userActions, aiSaves, db, deletes, sessions,
                 sessionsPending>>
  /\ UNCHANGED avars
  /\ UNCHANGED hvars

LoadingNext ==
  \/ Part002Send
  \/ Part002SaveUserDone
  \/ Part002AiArrives
  \/ Part002SendReturns
  \/ Part002NewChat
  \/ Part002SessionSelect
  \/ Part002LoadDone

LoadingSpec ==
  LoadingInit /\ [][LoadingNext]_vars

(***************************************************************************)
(* DeleteSpec: deletes, selects and new chats of a chat view that shows a  *)
(* stored session                                                          *)
(***************************************************************************)
\* the chat view after the user selected the first stored session and its
\* history and the sidebar list were loaded
DeleteInit ==
  /\ currentSessionId = <<"stored", 1>>
  /\ messages = formattedMessages(rowsOf(InitialRows, <<"stored", 1>>))
  /\ isLoading = FALSE
  /\ isTyping = FALSE
  /\ isLoadingHistory = FALSE
  /\ isFirstMessage = FALSE
  /\ send = IdleSend
  /\ sendCount = 0
  /\ userActions = 0
  /\ aiSaves = {}
  /\ db = InitialRows
  /\ loads = EmptyBag
  /\ deletes = {}
  /\ sessions = sessionIdsOf(InitialRows)
  /\ sessionsPending = FALSE
  /\ AdapterIdle
  /\ HelpersIdle

DeleteNext ==
  \/ DeleteSessionStarts
  \/ DeleteSessionDone
  \/ HandleSessionSelect
  \/ HandleNewChat
  \/ LoadChatHistoryDone
  \/ LoadChatSessionsDone

DeleteSpec ==
  DeleteInit /\ [][DeleteNext]_vars

(***************************************************************************)
(* Properties                                                              *)
(***************************************************************************)
\* C1 (SanSpec): for every raw response and every input, the string that
\* cleanAndValidateResponse returns has at least 10 characters, on every
\* path, the residual-echo trim included
C1_ResultAtLeastMinLength ==
  pc = "done" => Len(result) >= MinLength

\* C2 (SanSpec): when raw and input are equal up to trim and lower case, the
\* sanitizer returns a string of generateContextualFallback and never the raw
\* text, also when the text begins with a label prefix
C2_EchoYieldsFallback ==
  (pc = "done" /\ trim(toLowerCase(response)) = trim(toLowerCase(message)))
    => (result \in FallbackStrings(ad) /\ result # response)

\* C3 (SanSpec): when raw starts with the input and is exactly 30 characters
\* longer (the boundary that "len(raw) <= len(input) + 30" includes), the
\* sanitizer returns a fallback and not the response
C3_EchoBoundaryYieldsFallback ==
  (pc = "done" /\ startsWith(response, message)
     /\ Len(response) = Len(message) + EchoSlack)
    => result \in FallbackStrings(ad)

\* the input contains one of the category keywords
hasCategoryKeyword(input) ==
  \E k \in {<<"f","i","l","e">>, <<"u","p","l","o","a","d">>, <<"i","m","a","g","e">>, <<"c","o","d","e">>, <<"p","r","o","g","r","a","m">>, <<"h","e","l","p">>, <<"a","s","s","i","s","t">>,
            <<"e","x","p","l","a","i","n">>, <<"w","h","a","t"," ","i","s">>, <<"h","o","w">>, <<"p","i","c","t","u","r","e">>, <<"d","r","a","w">>} :
    includes(toLowerCase(input), k)

\* C4 (SanSpec): when the model returns the input verbatim and the input has
\* no category keyword, the sanitizer returns an entry of the five-entry
\* generic pool, never the echoed text and never a category template
C4_KeywordFreeEchoYieldsGeneric ==
  (pc = "done" /\ response = message /\ ~hasCategoryKeyword(message))
    => result \in GenericPool

\* C5 (AdapterSpec): sendMessage never rejects, and when the fetch rejects or
\* the endpoint answers with a non-2xx status the promise resolves to one of
\* the apology strings of the adapter's catch block
C5_FailureResolvesToApology ==
  pc = "done" =>
    /\ settled = "resolved"
    /\ http.kind \in {"reject", "status"} => result \in ApologyStrings(ad)

\* a call answered with status 500 has resolved to an apology
C5_Status500Answered ==
  /\ pc = "done"
  /\ http.kind = "status" /\ http.code = <<"5","0","0">> /\ http.text = <<"I","n","t","e","r","n","a","l"," ","S","e","r","v","e","r"," ","E","r","r","o","r">>
  /\ settled = "resolved"
  /\ result \in ApologyStrings(ad)

\* C6 (AdapterSpec): a 2xx answer without candidates, with an empty candidate
\* list, without parts or with empty or blank text resolves to one of the
\* adapter's apology strings, not to a sanitizer fallback nor the filler
C6_EmptyPayloadResolvesToApology ==
  (pc = "done"
     /\ \/ http.kind \in {"nocandidates", "emptycandidates", "noparts"}
        \/ http.kind = "text" /\ Len(trim(http.text)) = 0)
    => result \in ApologyStrings(ad)

\* the session a displayed message is tagged with is the active selection
\* (rows without a session and sends without one belong to "no session")
ofActiveSession(m) ==
  \/ m.session_id = currentSessionId
  \/ currentSessionId = NULL /\ m.session_id \in {Legacy, TempSession}

\* C7 (Spec): no message that a send appended to the displayed list carries
\* the id of a session other than the active one, so a reply to a send of
\* session A that arrives after the user left A is not displayed
C7_NoReplyInAnotherSessionsView ==
  \A i \in 1..Len(messages) :
    messages[i].id[1] \in {"local", "local-ai"} => ofActiveSession(messages[i])

\* C8 (Spec): once every history load has returned, the loaded messages on
\* display are those of the active selection, never those of a session
\* selected earlier
C8_NoStaleHistoryOnceLoadsReturned ==
  loads = EmptyBag =>
    \A i \in 1..Len(messages) :
      messages[i].id[1] = "db" => ofActiveSession(messages[i])

\* C9 (Spec): when the handler of a send returns, an AI message has been
\* appended to the list and isLoading and isTyping are both false, for text
\* sends and for image-generation sends, whether the external call succeeded
\* or failed
C9_SendEndsWithAiMessage ==
  [][(send.pc # "done" /\ send'.pc = "done") =>
       /\ ~isLoading' /\ ~isTyping'
       /\ Len(messages') = Len(messages) + 1
       /\ messages'[Len(messages')].sender = "ai"]_vars

isTurn(msg) ==
  msg.session_id # Welcome /\ Len(trim(msg.content)) > 0

\* positions of the last ContextWindow turns of the displayed list
lastTurns ==
  LET turns == {i \in 1..Len(messages) : isTurn(messages[i])}
  IN  {i \in turns : Cardinality({j \in turns : j > i}) < ContextWindow}

\* C11 (ContextSpec): buildConversationContext returns the last 6 (or all, if
\* fewer) non-welcome, non-empty messages of the displayed list, in their
\* order, each as role user/assistant with its content unchanged, and omits
\* none of them
C11_ContextIsLastSixTurns ==
  pc = "done" =>
    /\ Len(result) = Cardinality(lastTurns)
    /\ \A i \in lastTurns :
         result[Cardinality({j \in lastTurns : j <= i})] =
           [role |-> IF messages[i].sender = "user" THEN "user" ELSE "assistant",
            content |-> messages[i].content]

\* the words of a text: its maximal runs of characters that are not white space
wordStarts(s) ==
  {i \in 1..Len(s) : ~IsWs(s[i]) /\ (i = 1 \/ IsWs(s[i - 1]))}

wordAt(s, i) ==
  SubSeq(s, i, MinOf({j \in i..Len(s) : j = Len(s) \/ IsWs(s[j + 1])}))

\* the first n words of a text, in order
firstWords(s, n) ==
  LET starts == wordStarts(s)
      kept   == {i \in starts : Cardinality({j \in starts : j < i}) < n}
  IN  [k \in 1..Cardinality(kept) |->
         wordAt(s, CHOOSE i \in kept : Cardinality({j \in kept : j <= i}) = k)]

endsWithEllipsis(s) ==
  Len(s) >= Len(Ellipsis) /\ SubSeq(s, Len(s) - Len(Ellipsis) + 1, Len(s)) = Ellipsis

\* C12 (TitleSpec): the title consists of the first 4 words of the message,
\* followed by '...' exactly when the message is longer than 30 characters; a
\* blank message yields 'New Chat'
C12_TitleIsFirstFourWords ==
  pc = "done" =>
    IF wordStarts(message) = {} THEN result = NewChatTitle
    ELSE IF Len(message) > TitleMaxLen
    THEN /\ endsWithEllipsis(result)
         /\ firstWords(SubSeq(result, 1, Len(result) - Len(Ellipsis)), TitleWords + 1)
              = firstWords(message, TitleWords)
    ELSE firstWords(result, TitleWords + 1) = firstWords(message, TitleWords)

\* the user rows of a session that carry text, oldest first
RECURSIVE userRowsOf(_, _)
userRowsOf(rows, sid) ==
  IF rows = <<>> THEN <<>>
  ELSE IF Head(rows).session_id = sid /\ Head(rows).sender = "user"
          /\ Len(Head(rows).content) > 0
    THEN <<Head(rows)>> \o userRowsOf(Tail(rows), sid)
    ELSE userRowsOf(Tail(rows), sid)

\* C13 (SidebarSpec): when loadChatSessions returns, the title of every
\* listed session that has a user message is the title generated from the
\* earliest user message among the rows the query read
C13_TitleFromFirstUserMessage ==
  [][\A l \in sessionLoads \ sessionLoads' :
       l.read =>
         \A i \in 1..Len(sessions') :
           userRowsOf(l.rows, sessions'[i].id) # <<>> =>
             sessions'[i].title =
               generateChatTitle("part_003", userRowsOf(l.rows, sessions'[i].id)[1].content)]_vars

\* created_at of the newest row of a session
latestCreatedAt(rows, sid) ==
  MaxOf({rows[i].created_at : i \in {j \in 1..Len(rows) : rows[j].session_id = sid}})

\* C14 (SidebarSpec): whenever the list of the sidebar changes, updated_at of
\* no listed session decreases, and once no loadChatSessions call is in
\* flight every listed session has the created_at of its newest row as
\* updated_at and the number of its rows as message_count
C14_UpdatedAtAdvancesWithSaves ==
  [][\A i \in 1..Len(sessions') :
       /\ \A j \in 1..Len(sessions) :
            sessions[j].id = sessions'[i].id =>
              sessions'[i].updated_at >= sessions[j].updated_at
       /\ sessionLoads' = {} =>
            /\ rowsOf(db', sessions'[i].id) # <<>>
            /\ sessions'[i].updated_at = latestCreatedAt(db', sessions'[i].id)
            /\ sessions'[i].message_count = Len(rowsOf(db', sessions'[i].id))]_vars

\* the step on which the delete request d returns, by its outcome
deleteSucceeds(d) ==
  d.pc = "pending" /\ deletes' = (deletes \ {d}) \cup {[d EXCEPT !.pc = "ok"]}

deleteFails(d) ==
  d.pc = "pending" /\ deletes' = (deletes \ {d}) \cup {[d EXCEPT !.pc = "error"]}

\* the session ids with rows, and the no-session bucket, other than sid
otherBuckets(rows, sid) ==
  ({rows[i].session_id : i \in 1..Len(rows)} \cup {NULL}) \ {sid}

lastMessage(msgs) ==
  msgs[Len(msgs)]

sendStarts ==
  sendCount' = sendCount + 1

handlerReturns ==
  send.pc \in {"awaitAI", "awaitImage"} /\ send'.pc = "done"

\* C16 (Spec): every send that passes the guard of handleSendMessage goes on with a
\* session id that is not null (the selected id, a created id or the
\* 'temp-session' placeholder), the user message is displayed with that id,
\* and when the handler returns the AI reply of the send is displayed with
\* the same id
C16_SendProceedsWithSessionId ==
  [][/\ sendStarts =>
          /\ send'.sessionId # NULL
          /\ send'.sessionId \in {currentSessionId, FreshSession(sendCount'), TempSession}
          /\ Len(messages') = Len(messages) + 1
          /\ lastMessage(messages').sender = "user"
          /\ lastMessage(messages').session_id = send'.sessionId
     /\ handlerReturns =>
          /\ Len(messages') = Len(messages) + 1
          /\ lastMessage(messages').sender = "ai"
          /\ lastMessage(messages').session_id = send.sessionId]_vars

\* the steps on which saveMessageToDatabase returns without a row inserted,
\* for the user message of the running send and for an AI message
userSaveFails ==
  send.pc = "saveUser" /\ send'.pc # "saveUser" /\ db' = db

aiSaveFails ==
  aiSaves' # aiSaves /\ aiSaves' \subseteq aiSaves /\ db' = db

\* the user message of the running send has no row
userRowMissing ==
  \A i \in 1..Len(db) : db[i].id # <<"user", sendCount>>

\* C17 (Spec): when an insert of saveMessageToDatabase fails the call returns
\* normally and the displayed list is unchanged; after a failed save of the
\* user message the handler goes on to the request for the AI reply (or the
\* image), and when it returns the AI reply has been appended to the list
C17_SaveFailureNotSurfaced ==
  [][/\ userSaveFails =>
          /\ messages' = messages
          /\ send'.pc = IF send.image THEN "awaitImage" ELSE "awaitAI"
          /\ isLoading' /\ isTyping'
     /\ aiSaveFails =>
          /\ messages' = messages
          /\ send' = send
     /\ (handlerReturns /\ userRowMissing) =>
          /\ Len(messages') = Len(messages) + 1
          /\ lastMessage(messages').sender = "ai"
          /\ ~isLoading' /\ ~isTyping']_vars

\* hosts of the placeholder image services
PlaceholderHosts ==
  {"picsum.photos", "api.unsplash.com"}

\* C18 (ImageSpec): generateImage never rejects and returns a URL, and when
\* the endpoint did not deliver an image (the fetch rejected, a non-2xx
\* status, a payload without image data) the URL is one of a placeholder
\* service
C18_GenerateImageResolvesToUrl ==
  pc = "done" =>
    /\ settled = "resolved"
    /\ result.kind = "url"
    /\ http.kind # "image" => result.host \in PlaceholderHosts

\* the object URLs in use: those of the pending attachments, of the
\* attachments of displayed messages, of the previews of files whose upload
\* is running, and the URL of the recorder's player
heldUrls ==
  UNION {urlsOf(selectedFiles[i]) : i \in 1..Len(selectedFiles)}
    \cup UNION {urlsOf(f) : f \in sentFiles}
    \cup UNION {UNION {urlsOf(u.files[i]) : i \in 1..Len(u.files)} : u \in uploads}
    \cup ({audioUrl} \ {NoUrl})

\* C19 (MediaSpec): every object URL that was created and has not been revoked
\* belongs to an attachment that is pending, displayed or being uploaded, or
\* to the recorder's player: after a removal, a send, a new chat or the
\* teardown no URL of an attachment that is gone is left unrevoked
C19_ObjectUrlsRevoked ==
  objectUrls \subseteq heldUrls

\* the step on which a history load that captured the selection s returns
loadReturns(s) ==
  BagIn(s, loads) /\ loads' = loads (-) SetToBag({s})

\* positions of the persisted rows of the selection s (NULL: rows without
\* session id), in creation order
rowIdx(s) ==
  {i \in 1..Len(db) : db[i].session_id = s}

\* msgs is the list of the persisted rows of s, in ascending creation order
showsRowsOf(msgs, s) ==
  /\ Len(msgs) = Cardinality(rowIdx(s))
  /\ \A i \in rowIdx(s) :
       LET m == msgs[Cardinality({j \in rowIdx(s) : j <= i})]
       IN  /\ m.id = <<"db", db[i].id>>
           /\ m.sender = db[i].sender
           /\ m.content = db[i].content
           /\ m.session_id = IF s = NULL THEN Legacy ELSE s

isWelcomeOnly(msgs) ==
  Len(msgs) = 1 /\ msgs[1].session_id = Welcome /\ msgs[1].sender = "ai"

RECURSIVE editDistance(_, _, _, _)
editDistance(a, b, i, j) ==
  IF i = 0 THEN j
  ELSE IF j = 0 THEN i
  ELSE MinOf({editDistance(a, b, i - 1, j) + 1,
              editDistance(a, b, i, j - 1) + 1,
              editDistance(a, b, i - 1, j - 1) + (IF a[i] = b[j] THEN 0 ELSE 1)})

\* C21 (SimilaritySpec): levenshteinDistance(a, b) is the classic Levenshtein
\* distance of a and b whichever of the two is longer, the distance between
\* the empty string and s is the length of s, and the similarity of the
\* empty string and a non-empty string is 0
C21_LevenshteinIsClassic ==
  pc = "done" =>
    /\ result.distance = editDistance(message, response, Len(message), Len(response))
    /\ message = <<>> => result.distance = Len(response)
    /\ response = <<>> => result.distance = Len(message)
    /\ (message = <<>>) # (response = <<>>) => result.similarity.num = 0

\* the distance of "kitten" and "sitting" has been computed as 3
C21_KittenSitting ==
  /\ pc = "done"
  /\ message = <<"k","i","t","t","e","n">>
  /\ response = <<"s","i","t","t","i","n","g">>
  /\ result.distance = 3

\* C22 (SimilaritySpec): calculateSimilarity(s, s) is 1.0 for every string s,
\* the empty string included, where no division by zero takes place
C22_SelfSimilarityIsOne ==
  (pc = "done" /\ message = response) =>
    /\ result.similarity.den > 0
    /\ result.similarity.num = result.similarity.den

\* the similarity of the empty string with itself has been computed
C22_EmptyWithEmpty ==
  /\ pc = "done"
  /\ message = <<>>
  /\ response = <<>>
  /\ result.similarity = [num |-> 1, den |-> 1]

\* the six keyword categories: the keywords of each and the template an
\* adapter answers it with
fallbackCategories(a) ==
  << [keys |-> {<<"f","i","l","e">>, <<"u","p","l","o","a","d">>},
      template |-> IF a = "gemini" THEN GeminiFileTemplate ELSE SarvamFileTemplate],
     [keys |-> {<<"c","o","d","e">>, <<"p","r","o","g","r","a","m">>}, template |-> CodeTemplate],
     [keys |-> {<<"h","e","l","p">>, <<"a","s","s","i","s","t">>}, template |-> HelpTemplate],
     [keys |-> {<<"e","x","p","l","a","i","n">>, <<"w","h","a","t"," ","i","s">>}, template |-> ExplainTemplate],
     [keys |-> {<<"h","o","w">>}, template |-> HowTemplate],
     [keys |-> {<<"i","m","a","g","e">>, <<"p","i","c","t","u","r","e">>, <<"d","r","a","w">>},
      template |-> ImageTemplate] >>

\* the input contains a keyword of category c of adapter a
inCategory(a, input, c) ==
  \E k \in fallbackCategories(a)[c].keys : includes(toLowerCase(input), k)

\* C23 (FallbackSpec): the six category templates are pairwise distinct, and
\* an input that contains a keyword of one category (and of no other) is
\* answered with the template of that category
C23_CategoryGetsOwnTemplate ==
  pc = "done" =>
    /\ \A c, d \in 1..6 :
         c # d => fallbackCategories(ad)[c].template # fallbackCategories(ad)[d].template
    /\ \A c \in 1..6 :
         (inCategory(ad, message, c) /\ \A d \in (1..6) \ {c} : ~inCategory(ad, message, d))
           => result = fallbackCategories(ad)[c].template

\* the drop of batch u returns on this step
dropReturns(u) ==
  u \in uploads /\ uploads' = uploads \ {u}

\* C24 (MediaSpec): when the drop of a batch returns, whichever uploads of
\* it succeeded or failed, every file of the batch is in the pending list
\* with a defined url and the uploading flag is false
C24_EveryDroppedFileAttached ==
  [][\A u \in uploads :
       (dropReturns(u) /\ mounted) =>
         /\ \A i \in 1..Len(u.files) :
              \E k \in 1..Len(selectedFiles') :
                /\ selectedFiles'[k].id = u.files[i].id
                /\ selectedFiles'[k].url # NoUrl
         /\ ~uploading']_vars

\* C25 (EchoSpec): when the raw output of the model equals the user's
\* message (trimmed, case-insensitive), the displayed AI message is not
\* that text, with and without earlier turns merged into the prompt
C25_EchoNeverDisplayed ==
  (pc = "done" /\ trim(toLowerCase(response)) = trim(toLowerCase(message)))
    => trim(toLowerCase(result)) # trim(toLowerCase(message))

\* the text starts, in any case of the letters, with a label of the list
startsWithLabel(a, text) ==
  \E k \in 1..Len(prefixesToRemove(a)) :
    startsWith(toLowerCase(text), prefixesToRemove(a)[k])

\* C26 (SanSpec): when the sanitizer returns the cleaned model text and not
\* a fallback, the returned text starts with no label of the list, and the
\* prefix loop applied to it once more changes nothing
C26_ReturnedTextHasNoLabel ==
  (pc = "done" /\ result \notin FallbackStrings(ad)) =>
    /\ ~startsWithLabel(ad, result)
    /\ stripPrefixes(prefixesToRemove(ad), result, 1) = result

\* the user message (the AI reply) of the n-th send is in the list, as the
\* message the handler appended or as the row read back by loadChatHistory
showsUserMessage(msgs, n) ==
  \E i \in 1..Len(msgs) : msgs[i].id \in {<<"local", n>>, <<"user", n>>}
showsAiReply(msgs, n) ==
  \E i \in 1..Len(msgs) : msgs[i].id \in {<<"local-ai", n>>, <<"ai", n>>}

\* the step is a new chat, a session select or a step of a delete
selectionStep ==
  \/ userActions' # userActions /\ sendCount' = sendCount
  \/ deletes' # deletes

\* C27 (Spec): a displayed user message or AI reply of a send stays in the
\* displayed list on every step that is not a new chat, a session select or
\* a delete, the return of a history reload included
C27_DisplayedMessagesStay ==
  [][~selectionStep =>
       \A n \in 1..sendCount :
         /\ showsUserMessage(messages, n) => showsUserMessage(messages', n)
         /\ showsAiReply(messages, n) => showsAiReply(messages', n)]_vars

\* C28 (LoadingSpec): at most one AI request is outstanding, and while a
\* send has not returned the loading flag is set, so that handleSendMessage
\* returns at its guard
C28_OneSendAtATime ==
  /\ Cardinality({x \in sends : x.pc = "awaitAI"}) <= 1
  /\ sends # {} => isLoading

\* C29 (DeleteSpec): when deleteSession(s) returns while another selection
\* than s is active, the active selection and the displayed messages stay
\* as they are
C29_DeleteKeepsOtherSelection ==
  [][\A d \in deletes :
       ((deleteSucceeds(d) \/ deleteFails(d)) /\ d.sid # currentSessionId)
         => (currentSessionId' = currentSessionId /\ messages' = messages)]_vars

\* the ids of the attachments of a list
idsOf(files) ==
  {files[i].id : i \in 1..Len(files)}

\* C30 (MediaSpec): the return of a drop leaves every other attachment of
\* the pending list in the list and brings none back that is not in it, so
\* that a drop, a recording or a removal during the upload is kept
C30_DropReturnKeepsPendingList ==
  [][\A u \in uploads :
       (dropReturns(u) /\ mounted) =>
         idsOf(selectedFiles') \ idsOf(u.files) = idsOf(selectedFiles)]_vars

====
